---- MODULE Spec2Model ----
(***************************************************************************)
(* The INTERCAL interpreter of rick (src/src/eval.rs) as a state machine.  *)
(* One action is one iteration of the main loop of Eval::eval: the check   *)
(* for falling off the end, the abstention test, the chance draw, the      *)
(* dispatch of Eval::eval_stmt, the handling of the StmtRes and the COME   *)
(* FROM check that closes the iteration.                                   *)
(***************************************************************************)
EXTENDS Integers, Sequences, FiniteSets, TLC

VARIABLES program, var_info, added_syslib, pctr, jumps, abstentions, spot,
          twospot, tail, hybrid, ignored, out, status, err, last,
          inner, stash, line, delivered, first

vars == <<program, var_info, added_syslib, pctr, jumps, abstentions, spot,
          twospot, tail, hybrid, ignored, out, status, err, last,
          inner, stash, line, delivered, first>>

\* The lex::Lexer: the raw lexer (the tokens of the source and how many of
\* them it has produced), the stash, the line of the last token returned;
\* delivered is the history of what next() has returned, each token with
\* the lineno() that followed it.
lexer == <<inner, stash, line, delivered>>

\* first is how a run of the program by the interpreter ended and what it
\* wrote, kept while the optimizer is applied to the same program.

\* The ast::Program: its statements, the info about its variables, and the
\* flag of the system library.
prog == <<program, var_info, added_syslib>>

\* The four vectors of variables of Eval, in the order of Var::unique.
store == <<spot, twospot, tail, hybrid>>

(***************************************************************************)
(* Bounds of the model.                                                    *)
(***************************************************************************)
MaxStmts == 3
MaxShort == 2
MaxLabel == 2
MaxStash == 2
NSpot == 2
MaxData == 4
MaxLifo == 5
MaxMixed == 3
MaxRank == 3
MaxDim == 2
MaxOut == 3
BigDim == 256

(***************************************************************************)
(* Error codes of err.rs raised by the interpreter.                       *)
(***************************************************************************)
IE000 == 0
IE123 == 123
IE129 == 129
IE139 == 139
IE241 == 241
IE275 == 275
IE436 == 436
IE621 == 621
IE632 == 632
IE663 == 663

\* The depth of the NEXT stack at which DoNext fails.
MaxNexts == 80

\* The values of a u16 are 0 .. TwoTo16 - 1.
TwoTo16 == 65536

NoErr == [code |-> -1, line |-> -1]

(***************************************************************************)
(* ast::Stmt.  body.k is the StmtBody variant; body.a is its argument: the *)
(* label of DoNext, ComeFrom, Abstain and Reinstate, the literal of Resume *)
(* and Forget, the variable of Calc, Stash, Retrieve, Ignore and Remember, *)
(* the RtError code of Error; body.b is the literal a Calc assigns; body.g *)
(* is the gerund of a gerund-form Abstain or Reinstate ("" for the label   *)
(* form, Abstain::Line).  label, chance, disabled and srcline are the      *)
(* fields of StmtProps.  A variable is an ast::Var: t is its kind as       *)
(* Var::unique numbers it (0 spot, 1 twospot, 2 tail, 3 hybrid), n its     *)
(* number, subs its subscripts (literals).  body.t, body.a and body.subs   *)
(* are the variable a statement names (for Dim body.subs holds the         *)
(* dimensions); body.e is the variable a Calc or ReadOut reads (NoVar: the *)
(* Calc assigns the literal body.b, the ReadOut writes a constant).        *)
(* body.x is the expression of a Calc, Resume, Forget or ReadOut that is   *)
(* an operator tree (NoExpr: it is the literal or the variable above).     *)
(* For Print body.subs holds the bytes.  can_abstain is the field of Stmt. *)
(* body.more holds the variables that follow the first in the list of a    *)
(* Stash, Retrieve, Ignore or Remember.                                    *)
(***************************************************************************)
VarRef(t, n, subs) == [t |-> t, n |-> n, subs |-> subs]

NoVar == VarRef(-1, 0, <<>>)

\* An ast::Expr: op is the variant, vt the VType of a Num (16 or 32), n its
\* bits, var the variable of a Var, args the operands.  NoExpr: the
\* statement has no operator tree.
Expr(op, vt, n, var, args) ==
    [op |-> op, vt |-> vt, n |-> n, var |-> var, args |-> args]

NoExpr == Expr("None", 0, <<>>, NoVar, <<>>)

Stmt(k, a, b, g, label, chance, disabled, srcline) ==
    [body |-> [k |-> k, a |-> a, b |-> b, g |-> g,
               t |-> 0, subs |-> <<>>, e |-> NoVar, x |-> NoExpr,
               more |-> <<>>],
     label |-> label, chance |-> chance, disabled |-> disabled,
     srcline |-> srcline, can_abstain |-> TRUE]

\* DO <k> <var>, for the statements that name a variable.
OnVar(k, var) ==
    [Stmt(k, var.n, 0, "", 0, 100, FALSE, 0)
        EXCEPT !.body.t = var.t, !.body.subs = var.subs]

\* DO <var> <- #b
CalcNum(var, b) == [OnVar("Calc", var) EXCEPT !.body.b = b]

\* DO <var> <- <e>
CalcVar(var, e) == [OnVar("Calc", var) EXCEPT !.body.e = e]

\* The variable a statement body names.
DestVar(b) == VarRef(b.t, b.a, b.subs)

\* The variables of the list of a Stash, Retrieve, Ignore or Remember.
Vars(b) == <<DestVar(b)>> \o b.more

\* DO <k> <var> + <var> ...
ListOf(k, vs) == [OnVar(k, vs[1]) EXCEPT !.body.more = Tail(vs)]

\* DO <body>: StmtProps::default(), chance 100, not disabled, no label.
Do(k, a) == Stmt(k, a, 0, "", 0, 100, FALSE, 0)
\* DO NOT <body>
DoNot(s) == [s EXCEPT !.disabled = TRUE]
\* DO %50 <body>
DoPct(s) == [s EXCEPT !.chance = 50]

NStmts(p) == Len(p)

\* program.stmts[i], with the 0-based index of the code.
StmtAt(p, i) == p[i + 1]

(***************************************************************************)
(* program.labels: label -> logical line.                                  *)
(***************************************************************************)
HasLabel(p, l) == \E i \in 0..(NStmts(p) - 1) : StmtAt(p, i).label = l /\ l > 0

LabelIndex(p, l) == CHOOSE i \in 0..(NStmts(p) - 1) : StmtAt(p, i).label = l

(***************************************************************************)
(* program.comefroms: label -> logical line of the COME FROM naming it.    *)
(***************************************************************************)
HasComeFrom(p, l) ==
    \E i \in 0..(NStmts(p) - 1) :
        StmtAt(p, i).body.k = "ComeFrom" /\ StmtAt(p, i).body.a = l

ComeFromIndex(p, l) ==
    CHOOSE i \in 0..(NStmts(p) - 1) :
        StmtAt(p, i).body.k = "ComeFrom" /\ StmtAt(p, i).body.a = l

\* Stype without the arm that counts a Dim as a Calc.
StypeDimApart(s) ==
    CASE s.body.k = "Error"  -> "Label0"
      [] s.body.k = "GiveUp" -> "Label0"
      [] s.body.k = "Print"  -> "Label0"
      [] s.body.k = "DoNext" -> "Next"
      [] OTHER               -> s.body.k

(***************************************************************************)
(* Stmt::stype: the gerund of a statement; "Label0" is Abstain::Label(0).  *)
(***************************************************************************)
Stype(s) ==
    CASE s.body.k = "Error"  -> "Label0"
      [] s.body.k = "GiveUp" -> "Label0"
      [] s.body.k = "Print"  -> "Label0"
      [] s.body.k = "Dim"    -> "Calc"
      [] s.body.k = "DoNext" -> "Next"
      [] OTHER               -> s.body.k

(***************************************************************************)
(* util::check_chance: a statement of chance 100 always runs, one of a     *)
(* lower chance runs when the draw says so.                                *)
(***************************************************************************)
CheckChance(chance, draw) == IF chance >= 100 THEN TRUE ELSE draw

\* ComeFromCheck without the test of the COME FROM's own abstention.
ComeFromCheckAlways(p, abs, pc) ==
    LET lbl == StmtAt(p, pc).label
    IN  IF lbl > 0 /\ HasComeFrom(p, lbl)
        THEN ComeFromIndex(p, lbl)
        ELSE pc + 1

(***************************************************************************)
(* The COME FROM check that closes an iteration of the main loop, for the  *)
(* statement at pc under the abstentions abs: the next program counter.    *)
(***************************************************************************)
ComeFromCheck(p, abs, pc) ==
    LET lbl == StmtAt(p, pc).label
    IN  IF lbl > 0 /\ HasComeFrom(p, lbl) /\ ~abs[ComeFromIndex(p, lbl) + 1]
        THEN ComeFromIndex(p, lbl)
        ELSE pc + 1

\* JumpTo falling into the COME FROM check of the NEXT statement's line.
JumpToChecked(p, abs, pc, n) ==
    IF ComeFromCheck(p, abs, pc) # pc + 1 THEN ComeFromCheck(p, abs, pc) ELSE n

\* StmtRes::Jump(n): pctr = n; continue, with no COME FROM check.
JumpTo(p, abs, pc, n) == n

\* BackTo with the COME FROM check made on the RESUME statement's own line.
BackToOwnLine(p, abs, pc, n) ==
    IF ComeFromCheck(p, abs, pc) # pc + 1 THEN ComeFromCheck(p, abs, pc) ELSE n + 1

\* StmtRes::Back(n): pctr = n, then the COME FROM check of statement n.
BackTo(p, abs, pc, n) == ComeFromCheck(p, abs, n)

\* TooManyNexts off by one.
TooManyNextsLate(j) == Len(j) > MaxNexts

\* The test of DoNext for a full NEXT stack.
TooManyNexts(j) == Len(j) >= MaxNexts

\* PopJumps without the final pop: one entry too many stays on the stack.
PopJumpsNoPop(j, n) ==
    IF n = 0 THEN [code |-> IE621, jumps |-> j, next |-> -1]
    ELSE IF Len(j) < n THEN [code |-> IE632, jumps |-> j, next |-> -1]
    ELSE [code |-> -1, jumps |-> SubSeq(j, 1, Len(j) - n + 1),
          next |-> j[Len(j) - n + 1]]

(***************************************************************************)
(* Eval::pop_jumps: code is -1 on success.                                 *)
(***************************************************************************)
PopJumps(j, n) ==
    IF n = 0 THEN [code |-> IE621, jumps |-> j, next |-> -1]
    ELSE IF Len(j) < n THEN [code |-> IE632, jumps |-> j, next |-> -1]
    ELSE [code |-> -1, jumps |-> SubSeq(j, 1, Len(j) - n),
          next |-> j[Len(j) - n + 1]]

(***************************************************************************)
(* The outcome of an operation that can fail: code is -1 on success, the   *)
(* error code of the Err it returns, or Panicked when the process aborts   *)
(* (an arithmetic overflow in a build that checks for it, an index outside *)
(* a Vec).  Where the outcome depends on how the interpreter was built,    *)
(* the operation has one outcome per build: wrap is TRUE for a build whose *)
(* integer arithmetic wraps, FALSE for one that panics on overflow.        *)
(***************************************************************************)
Panicked == -2

\* Val::as_u16 succeeds: the value is no wider than 16 bits.
FitsU16(val) == val < TwoTo16

\* Array::empty
EmptyArray == [dims |-> <<>>, elems |-> <<>>]

\* Var::new
NewVar(t) == [val |-> t, stack |-> <<>>]

\* subs.iter().product::<u16>() from acc on, in a build of the given wrap.
RECURSIVE ProductU16(_, _, _)
ProductU16(ds, acc, wrap) ==
    IF ds = <<>> THEN [code |-> -1, n |-> acc]
    ELSE IF ~wrap /\ acc * ds[1] >= TwoTo16 THEN [code |-> Panicked, n |-> 0]
    ELSE ProductU16(Tail(ds), (acc * ds[1]) % TwoTo16, wrap)

\* Array::new
ArrayNew(dims) ==
    { LET r == ProductU16(dims, 1, wrap)
      IN  IF r.code = -1
          THEN [code |-> -1,
                val |-> [dims |-> dims, elems |-> [i \in 1..r.n |-> 0]]]
          ELSE [code |-> r.code, val |-> EmptyArray] : wrap \in BOOLEAN }

(***************************************************************************)
(* The loop of array_assign and array_lookup over the subscripts from the  *)
(* i-th on: ix and prev are the u16 variables ix and prev_dim.             *)
(***************************************************************************)
RECURSIVE IndexLoop(_, _, _, _, _, _)
IndexLoop(dims, subs, i, ix, prev, wrap) ==
    IF i > Len(subs) THEN [code |-> -1, ix |-> ix]
    ELSE IF subs[i] > dims[i] THEN [code |-> IE241, ix |-> ix]
    ELSE LET under == subs[i] < 1
             d == IF under THEN TwoTo16 - 1 ELSE subs[i] - 1
             m == d * prev
             a == ix + (m % TwoTo16)
         IN  IF ~wrap /\ (under \/ m >= TwoTo16 \/ a >= TwoTo16)
             THEN [code |-> Panicked, ix |-> ix]
             ELSE IndexLoop(dims, subs, i + 1, a % TwoTo16, dims[i], wrap)

\* The element of arr that array_assign and array_lookup reach with subs.
ArrayIndex(arr, subs) ==
    IF \E i \in 1..Len(subs) : ~FitsU16(subs[i])
    THEN {[code |-> IE275, ix |-> 0]}
    ELSE IF Len(subs) # Len(arr.dims)
    THEN {[code |-> IE241, ix |-> 0]}
    ELSE { LET r == IndexLoop(arr.dims, subs, 1, 0, 1, wrap)
           IN  IF r.code = -1 /\ r.ix >= Len(arr.elems)
               THEN [code |-> Panicked, ix |-> r.ix]
               ELSE r : wrap \in BOOLEAN }

\* Eval::array_assign on the vector of kind t.
ArrayAssign(st, t, n, subs, val) ==
    { IF r.code = -1
      THEN [code |-> -1,
            st |-> [st EXCEPT ![t + 1][n].val.elems[r.ix + 1] = val]]
      ELSE [code |-> r.code, st |-> st] :
        r \in ArrayIndex(st[t + 1][n].val, subs) }

\* AssignTo with a value too wide for 16 bits truncated instead of refused.
AssignToTruncating(st, var, val) ==
    CASE var.t = 0 ->
           {[code |-> -1, st |-> [st EXCEPT ![1][var.n].val = val % TwoTo16]]}
      [] var.t = 1 ->
           {[code |-> -1, st |-> [st EXCEPT ![2][var.n].val = val]]}
      [] var.t = 2 -> ArrayAssign(st, 2, var.n, var.subs, val % TwoTo16)
      [] var.t = 3 -> ArrayAssign(st, 3, var.n, var.subs, val)

\* The match of Eval::assign on the kind of the variable.
AssignTo(st, var, val) ==
    CASE var.t = 0 ->
           IF FitsU16(val)
           THEN {[code |-> -1, st |-> [st EXCEPT ![1][var.n].val = val]]}
           ELSE {[code |-> IE275, st |-> st]}
      [] var.t = 1 ->
           {[code |-> -1, st |-> [st EXCEPT ![2][var.n].val = val]]}
      [] var.t = 2 ->
           IF FitsU16(val)
           THEN ArrayAssign(st, 2, var.n, var.subs, val)
           ELSE {[code |-> IE275, st |-> st]}
      [] var.t = 3 -> ArrayAssign(st, 3, var.n, var.subs, val)

\* Assign without the test of the ignore set.
AssignAlways(st, ign, var, val) == AssignTo(st, var, val)

(***************************************************************************)
(* Eval::assign: a no-op on an ignored variable.                           *)
(***************************************************************************)
Assign(st, ign, var, val) ==
    IF <<var.t, var.n>> \in ign
    THEN {[code |-> -1, st |-> st]}
    ELSE AssignTo(st, var, val)

\* Eval::lookup
Lookup(st, var) ==
    IF var.t < 2
    THEN {[code |-> -1, val |-> st[var.t + 1][var.n].val]}
    ELSE { IF r.code = -1
           THEN [code |-> -1, val |-> st[var.t + 1][var.n].val.elems[r.ix + 1]]
           ELSE [code |-> r.code, val |-> 0] :
             r \in ArrayIndex(st[var.t + 1][var.n].val, var.subs) }

\* Eval::array_dim and Eval::array_dimension
ArrayDim(st, ign, var, vals) ==
    IF <<var.t, var.n>> \in ign THEN {[code |-> -1, st |-> st]}
    ELSE IF \E i \in 1..Len(vals) : ~FitsU16(vals[i])
    THEN {[code |-> IE275, st |-> st]}
    ELSE { IF r.code = -1
           THEN [code |-> -1, st |-> [st EXCEPT ![var.t + 1][var.n].val = r.val]]
           ELSE [code |-> r.code, st |-> st] : r \in ArrayNew(vals) }

\* StashVar with one stack per variable number, shared by the spot and the
\* twospot variable of that number.
StashVarShared(st, var) ==
    IF var.t < 2
    THEN [st EXCEPT ![1][var.n].stack = Append(@, st[var.t + 1][var.n].val),
                    ![2][var.n].stack = Append(@, st[var.t + 1][var.n].val)]
    ELSE [st EXCEPT ![var.t + 1][var.n].stack
                        = Append(@, st[var.t + 1][var.n].val)]

\* Eval::stash
StashVar(st, var) ==
    [st EXCEPT ![var.t + 1][var.n].stack = Append(@, st[var.t + 1][var.n].val)]

\* RetrieveVar taking the oldest snapshot instead of the newest.
RetrieveVarOldest(st, var) ==
    LET stack == st[var.t + 1][var.n].stack
    IN  [st EXCEPT ![var.t + 1][var.n].val = stack[1],
                   ![var.t + 1][var.n].stack = SubSeq(stack, 2, Len(stack))]

\* Eval::generic_retrieve, after the test for an empty stack.
RetrieveVar(st, var) ==
    LET stack == st[var.t + 1][var.n].stack
    IN  [st EXCEPT ![var.t + 1][var.n].val = stack[Len(stack)],
                   ![var.t + 1][var.n].stack = SubSeq(stack, 1, Len(stack) - 1)]

\* Eval::set_rw
SetRw(ign, var, rw) ==
    IF rw THEN ign \ {<<var.t, var.n>>} ELSE ign \cup {<<var.t, var.n>>}

\* for var in vars { try!(self.stash(var)); }
RECURSIVE StashAll(_, _)
StashAll(st, vs) ==
    IF vs = <<>> THEN st
    ELSE StashAll(StashVar(st, Head(vs)), Tail(vs))

\* for var in vars { try!(self.retrieve(var)); }: the store the loop leaves
\* and the code of the error that ended it (-1: none).
RECURSIVE RetrieveAll(_, _)
RetrieveAll(st, vs) ==
    IF vs = <<>> THEN [st |-> st, code |-> -1]
    ELSE IF st[Head(vs).t + 1][Head(vs).n].stack = <<>>
         THEN [st |-> st, code |-> IE436]
         ELSE RetrieveAll(RetrieveVar(st, Head(vs)), Tail(vs))

\* for var in vars { try!(self.set_rw(var, rw)); }
RECURSIVE SetRwAll(_, _, _)
SetRwAll(ign, vs, rw) ==
    IF vs = <<>> THEN ign
    ELSE SetRwAll(SetRw(ign, Head(vs), rw), Tail(vs), rw)

\* AbstainSet with a label form that flips the bit instead of setting it.
AbstainSetFlip(p, abs, b, flag) ==
    IF b.g = ""
    THEN [abs EXCEPT ![LabelIndex(p, b.a) + 1] = ~@]
    ELSE [i \in 1..Len(abs) |-> IF Stype(p[i]) = b.g THEN flag ELSE abs[i]]

(***************************************************************************)
(* Eval::abstain, after the test for an unknown label: the abstentions     *)
(* after ABSTAIN (flag TRUE) or REINSTATE (flag FALSE) of body b.          *)
(***************************************************************************)
AbstainSet(p, abs, b, flag) ==
    IF b.g = ""
    THEN [abs EXCEPT ![LabelIndex(p, b.a) + 1] = flag]
    ELSE [i \in 1..Len(abs) |-> IF Stype(p[i]) = b.g THEN flag ELSE abs[i]]

(***************************************************************************)
(* The programs the interpreter is run on: every sequence of one to        *)
(* MaxShort statements of Alphabet, and every sequence of up to MaxStmts   *)
(* statements of CoreAlphabet (the statements of control flow) or of       *)
(* MiscAlphabet, that the parser and the analyzer accept.  Up to MaxLabel consecutive statements  *)
(* carry the labels 1, 2, ...; the label MaxLabel + 1 is never defined.    *)
(***************************************************************************)
CoreAlphabet ==
    { Do("GiveUp", 0),
      Do("DoNext", 1), Do("DoNext", 2),
      Do("ComeFrom", 1), Do("ComeFrom", 2),
      Do("Resume", 1), Do("Resume", 2),
      Do("Forget", 1),
      Do("Abstain", 1), Do("Reinstate", 1) }

Alphabet ==
    CoreAlphabet \cup
    { DoPct(Do("GiveUp", 0)), DoNot(Do("GiveUp", 0)),
      Do("Error", IE000), DoNot(Do("Error", IE000)),
      DoPct(Do("DoNext", 1)), Do("DoNext", MaxLabel + 1),
      DoNot(Do("ComeFrom", 1)),
      Do("Resume", 0), Do("Forget", 2),
      Do("Abstain", MaxLabel + 1),
      [Do("Abstain", 0) EXCEPT !.body.g = "ComeFrom"],
      [Do("Reinstate", 0) EXCEPT !.body.g = "ComeFrom"],
      [Do("Calc", 0) EXCEPT !.body.b = 1],
      DoNot([Do("Calc", 0) EXCEPT !.body.b = 1]),
      Do("Stash", 0), Do("Retrieve", 0), Do("Ignore", 0), Do("Remember", 0) }

\* DO ABSTAIN FROM <gerund> and DO REINSTATE <gerund>
Gerund(k, g) == [Do(k, 0) EXCEPT !.body.g = g]

\* DO <array> <- dims
DimStmt(var, dims) == OnVar("Dim", VarRef(var.t, var.n, dims))

\* Statements of the other kinds, and the gerund forms that name them.
MiscAlphabet ==
    { Do("GiveUp", 0), Do("Error", IE000), Do("Print", 0),
      CalcNum(VarRef(0, 0, <<>>), 1),
      DimStmt(VarRef(2, 0, <<>>), <<1>>),
      CalcNum(VarRef(2, 0, <<0>>), 1),
      OnVar("WriteIn", VarRef(1, 0, <<>>)),
      [Do("ReadOut", 0) EXCEPT !.body.e = VarRef(0, 0, <<>>)],
      DoNot(DoPct(CalcNum(VarRef(0, 0, <<>>), 1))),
      Do("ComeFrom", 1),
      Do("Reinstate", MaxLabel + 1), Do("Reinstate", 1),
      Gerund("Abstain", "Calc"), Gerund("Reinstate", "Calc"),
      Gerund("Abstain", "Abstain") }

\* The statements as the parser numbers them: the source lines 1, 2, ... and
\* the labels 1, 2, ... on up to MaxLabel statements from position off + 1 on.
Numbered(p, off) ==
    [i \in 1..Len(p) |->
        [p[i] EXCEPT !.label = IF off < i /\ i <= off + MaxLabel THEN i - off ELSE 0,
                     !.srcline = i]]

Offsets(p) == 0..(IF Len(p) > MaxLabel THEN Len(p) - MaxLabel ELSE 0)

IsNext(s) == s.body.k = "DoNext"

(***************************************************************************)
(* What the analyzer accepts: a COME FROM names a label of the program,    *)
(* and no two COME FROMs name the same label.  A program with a DoNext of  *)
(* chance below 100 holds no second DoNext to a defined label (this keeps  *)
(* the contents of the NEXT stack from branching at every level).          *)
(***************************************************************************)
WellFormed(p) ==
    /\ \A i \in 1..Len(p) :
          p[i].body.k = "ComeFrom" =>
             /\ HasLabel(p, p[i].body.a)
             /\ \A j \in 1..Len(p) :
                   (p[j].body.k = "ComeFrom" /\ p[j].body.a = p[i].body.a)
                      => j = i
    /\ \A i, j \in 1..Len(p) :
          (IsNext(p[i]) /\ p[i].chance < 100 /\ IsNext(p[j])
              /\ HasLabel(p, p[j].body.a)) => j = i

\* q is a sequence of one to hi statements of A, numbered, that is accepted.
Family(q, A, hi) ==
    \E n \in 1..hi :
       \E p \in [1..n -> A] :
          \E off \in Offsets(p) : q = Numbered(p, off) /\ WellFormed(q)

\* (label) DO ... on source line srcline.
Line(s, label, srcline) == [s EXCEPT !.label = label, !.srcline = srcline]

\* (10) DO .1 <- #1  (20) DO COME FROM (30)  DO .1 <- #2  DO GIVE UP
\* (30) DO .1 <- #3
ComeFromProgram ==
    << Line(CalcNum(VarRef(0, 1, <<>>), 1), 10, 1),
       Line(Do("ComeFrom", 30), 20, 2),
       Line(CalcNum(VarRef(0, 1, <<>>), 2), 0, 3),
       Line(Do("GiveUp", 0), 0, 4),
       Line(CalcNum(VarRef(0, 1, <<>>), 3), 30, 5) >>

IsProgram(q) ==
    \/ Family(q, Alphabet, MaxShort)
    \/ Family(q, CoreAlphabet, MaxStmts)
    \/ Family(q, MiscAlphabet, MaxStmts)
    \/ q = ComeFromProgram

(***************************************************************************)
(* The programs of assignments: straight-line programs over the variables  *)
(* .0, .1 (spot), :0 (twospot), ,0 (tail) and ;0 (hybrid), without labels. *)
(* IgnoreAlphabet: IGNORE and REMEMBER around assignments to a scalar;     *)
(* TailAlphabet: the same and STASH and RETRIEVE for an array of one       *)
(* dimension; StashAlphabet: STASH and RETRIEVE of one variable;           *)
(* MixedAlphabet: STASH, RETRIEVE and assignments over all the variables.  *)
(***************************************************************************)
Spot(n) == VarRef(0, n, <<>>)

TwoSpot(n) == VarRef(1, n, <<>>)

TailVar(n, subs) == VarRef(2, n, subs)

HybridVar(n, subs) == VarRef(3, n, subs)

IgnoreAlphabet ==
    { OnVar("Ignore", Spot(0)), OnVar("Remember", Spot(0)),
      CalcNum(Spot(0), 1), CalcNum(Spot(0), TwoTo16),
      OnVar("WriteIn", Spot(0)) }

TailAlphabet ==
    { DimStmt(TailVar(0, <<>>), <<MaxDim>>),
      OnVar("Ignore", TailVar(0, <<>>)), OnVar("Remember", TailVar(0, <<>>)),
      CalcNum(TailVar(0, <<1>>), 1),
      CalcNum(TailVar(0, <<MaxDim>>), TwoTo16),
      CalcNum(TailVar(0, <<MaxDim + 1>>), 1),
      OnVar("Stash", TailVar(0, <<>>)), OnVar("Retrieve", TailVar(0, <<>>)) }

StashAlphabet ==
    { OnVar("Stash", Spot(0)), OnVar("Retrieve", Spot(0)),
      CalcNum(Spot(0), 1), CalcNum(Spot(0), 2) }

MixedAlphabet ==
    { OnVar("Stash", Spot(0)), OnVar("Retrieve", Spot(0)),
      OnVar("Stash", Spot(1)), OnVar("Retrieve", Spot(1)),
      OnVar("Stash", TwoSpot(0)), OnVar("Retrieve", TwoSpot(0)),
      OnVar("Stash", TailVar(0, <<>>)), OnVar("Retrieve", TailVar(0, <<>>)),
      CalcNum(Spot(0), 1), CalcNum(Spot(1), 2),
      CalcNum(TwoSpot(0), TwoTo16), OnVar("WriteIn", TwoSpot(0)),
      DimStmt(TailVar(0, <<>>), <<1>>),
      DimStmt(HybridVar(0, <<>>), <<1>>),
      CalcNum(HybridVar(0, <<1>>), TwoTo16) }

\* DimAlphabet: arrays of two dimensions, of MaxDim * MaxDim and of
\* BigDim * BigDim elements, STASH and IGNORE around the DIM.
DimAlphabet ==
    { DimStmt(TailVar(0, <<>>), <<BigDim, BigDim>>),
      DimStmt(TailVar(0, <<>>), <<MaxDim, MaxDim>>),
      DimStmt(HybridVar(0, <<>>), <<BigDim, BigDim>>),
      OnVar("Stash", TailVar(0, <<>>)), OnVar("Ignore", TailVar(0, <<>>)),
      CalcNum(TailVar(0, <<1, 1>>), 1) }

\* q is a sequence of one to hi statements of A, numbered, without labels.
DataFamily(q, A, hi) ==
    \E n \in 1..hi : \E p \in [1..n -> A] : q = Numbered(p, n)

IsDataProgram(q) ==
    \/ DataFamily(q, IgnoreAlphabet, MaxData)
    \/ DataFamily(q, TailAlphabet, MaxData)
    \/ DataFamily(q, StashAlphabet, MaxLifo)
    \/ DataFamily(q, MixedAlphabet, MaxMixed)
    \/ DataFamily(q, DimAlphabet, MaxMixed)

\* No source is being lexed.
NoLexer ==
    /\ inner = [src |-> <<>>, at |-> 0]
    /\ stash = <<>>
    /\ line = 1
    /\ delivered = <<>>

(***************************************************************************)
(* Eval::new                                                               *)
(***************************************************************************)
NoStep == [pc |-> -1, res |-> "None", cf |-> -1, draws |-> 0, top |-> -1]

\* No run of the program is on record.
NoRun == [status |-> "None", out |-> <<>>]

InitEval ==
    /\ pctr = 0
    /\ jumps = <<>>
    /\ abstentions = [i \in 1..Len(program) |-> program[i].disabled]
    /\ spot = [v \in 0..(NSpot - 1) |-> NewVar(0)]
    /\ twospot = [v \in 0..(NSpot - 1) |-> NewVar(0)]
    /\ tail = [v \in 0..(NSpot - 1) |-> NewVar(EmptyArray)]
    /\ hybrid = [v \in 0..(NSpot - 1) |-> NewVar(EmptyArray)]
    /\ ignored = {}
    /\ out = <<>>
    /\ status = "running"
    /\ err = NoErr
    /\ last = NoStep
    /\ NoLexer
    /\ first = NoRun

\* VarInfo::new
NewVarInfo == [can_ignore |-> TRUE, can_stash |-> TRUE]

\* What the parser leaves in Program beside the statements: the info of
\* every variable, of the four kinds, and the flag of the system library.
InitInfo ==
    /\ var_info = [t \in 0..3 |-> [v \in 0..(NSpot - 1) |-> NewVarInfo]]
    /\ added_syslib = FALSE

Init == IsProgram(program) /\ InitInfo /\ InitEval

(***************************************************************************)
(* Eval::eval, one iteration of the loop per action.  last records the     *)
(* iteration: the statement it was at, how it ended, the statement whose   *)
(* label the COME FROM check read (-1: no check), the chance draws, and    *)
(* the entry that was on top of jumps when the iteration began (-1: none). *)
(***************************************************************************)
StepRec(res, cf, draws) ==
    [pc |-> pctr, res |-> res, cf |-> cf, draws |-> draws,
     top |-> IF jumps = <<>> THEN -1 ELSE jumps[Len(jumps)]]

Running == status = "running"

Cur == StmtAt(program, pctr)

\* Exec without the test of the abstention bit.
ExecAbstained(k, draw) ==
    /\ Running
    /\ pctr < NStmts(program)
    /\ Cur.body.k = k
    /\ CheckChance(Cur.chance, draw)

\* The statement at pctr is reached, not abstained, and its draw accepted.
Exec(k, draw) ==
    /\ Running
    /\ pctr < NStmts(program)
    /\ ~abstentions[pctr + 1]
    /\ Cur.body.k = k
    /\ CheckChance(Cur.chance, draw)

\* ErrorLine without set_line: the line err::new leaves.
ErrorLineUnset(p, pc) == 0

\* Err(err) of eval_stmt: err.set_line(stmt.props.srcline); return Err(err).
ErrorLine(p, pc) == StmtAt(p, pc).srcline

Fail(code) ==
    /\ status' = "error"
    /\ err' = [code |-> code, line |-> ErrorLine(program, pctr)]
    /\ last' = StepRec("Err", -1, 1)
    /\ UNCHANGED <<prog, pctr>>

\* StmtRes::Next, then the COME FROM check under the abstentions abs.
GoNext(abs) ==
    /\ pctr' = ComeFromCheck(program, abs, pctr)
    /\ last' = StepRec("Next", pctr, 1)
    /\ UNCHANGED <<prog, status, err>>

\* FellOffLine naming the last statement instead of the program's length.
FellOffLineLast(p) == NStmts(p) - 1

\* The check for falling off the end.
FellOffLine(p) == NStmts(p)

FellOff ==
    /\ Running
    /\ pctr >= NStmts(program)
    /\ status' = "error"
    /\ err' = [code |-> IE663, line |-> FellOffLine(program)]
    /\ last' = StepRec("Fell", -1, 0)
    /\ UNCHANGED <<prog, pctr, jumps, abstentions, store, ignored>>
    /\ UNCHANGED <<out, lexer, first>>

\* SkipAbstained pushing the index of an abstained DO NEXT all the same.
SkipAbstainedPushing ==
    /\ Running
    /\ pctr < NStmts(program)
    /\ abstentions[pctr + 1]
    /\ pctr' = ComeFromCheck(program, abstentions, pctr)
    /\ last' = StepRec("Skip", pctr, 0)
    /\ jumps' = IF Cur.body.k = "DoNext" THEN Append(jumps, pctr) ELSE jumps
    /\ UNCHANGED <<prog, abstentions, store, ignored, status, err>>
    /\ UNCHANGED <<out, lexer, first>>

\* The statement is abstained: only the COME FROM check runs.
SkipAbstained ==
    /\ Running
    /\ pctr < NStmts(program)
    /\ abstentions[pctr + 1]
    /\ pctr' = ComeFromCheck(program, abstentions, pctr)
    /\ last' = StepRec("Skip", pctr, 0)
    /\ UNCHANGED <<prog, jumps, abstentions, store, ignored, status, err>>
    /\ UNCHANGED <<out, lexer, first>>

\* ChanceRejected going on to the next statement with no COME FROM check.
ChanceRejectedNoCheck ==
    /\ Running
    /\ pctr < NStmts(program)
    /\ ~abstentions[pctr + 1]
    /\ \E draw \in BOOLEAN : ~CheckChance(Cur.chance, draw)
    /\ pctr' = pctr + 1
    /\ last' = StepRec("Rejected", pctr, 1)
    /\ UNCHANGED <<prog, jumps, abstentions, store, ignored, status, err>>
    /\ UNCHANGED <<out, lexer, first>>

\* check_chance says no: only the COME FROM check runs.
ChanceRejected ==
    /\ Running
    /\ pctr < NStmts(program)
    /\ ~abstentions[pctr + 1]
    /\ \E draw \in BOOLEAN : ~CheckChance(Cur.chance, draw)
    /\ pctr' = ComeFromCheck(program, abstentions, pctr)
    /\ last' = StepRec("Rejected", pctr, 1)
    /\ UNCHANGED <<prog, jumps, abstentions, store, ignored, status, err>>
    /\ UNCHANGED <<out, lexer, first>>

\* StmtRes::End: break; Ok(()).
GiveUp ==
    /\ \E draw \in BOOLEAN : Exec("GiveUp", draw)
    /\ status' = "ok"
    /\ last' = StepRec("End", -1, 1)
    /\ UNCHANGED <<prog, pctr, jumps, abstentions, store, ignored, err>>
    /\ UNCHANGED <<out, lexer, first>>

ErrorStmt ==
    /\ \E draw \in BOOLEAN : Exec("Error", draw)
    /\ Fail(Cur.body.a)
    /\ UNCHANGED <<jumps, abstentions, store, ignored>>
    /\ UNCHANGED <<out, lexer, first>>

\* The process aborts in the middle of the statement.
Abort ==
    /\ status' = "panic"
    /\ last' = StepRec("Panic", -1, 1)
    /\ UNCHANGED <<prog, pctr, err>>

\* How a statement that returns Ok(StmtRes::Next), fails or panics ends.
Finish(code) ==
    IF code = -1 THEN GoNext(abstentions)
    ELSE IF code = Panicked THEN Abort
    ELSE Fail(code)

SetStore(st) ==
    /\ spot' = st[1]
    /\ twospot' = st[2]
    /\ tail' = st[3]
    /\ hybrid' = st[4]

\* The numbers read_number returns to a WriteIn.
InputValues == {1, TwoTo16 - 1, TwoTo16}

\* eval_expr of the right-hand side of a Calc: a literal or a variable.
EvalSource(st, b) ==
    IF b.e = NoVar THEN {[code |-> -1, val |-> b.b]} ELSE Lookup(st, b.e)

Calc ==
    /\ \E draw \in BOOLEAN : Exec("Calc", draw)
    /\ \E v \in EvalSource(store, Cur.body) :
          IF v.code # -1
          THEN Finish(v.code) /\ UNCHANGED store
          ELSE \E r \in Assign(store, ignored, DestVar(Cur.body), v.val) :
                  SetStore(r.st) /\ Finish(r.code)
    /\ UNCHANGED <<jumps, abstentions, ignored>>
    /\ UNCHANGED <<out, lexer, first>>

Dim ==
    /\ \E draw \in BOOLEAN : Exec("Dim", draw)
    /\ \E r \in ArrayDim(store, ignored, VarRef(Cur.body.t, Cur.body.a, <<>>),
                         Cur.body.subs) :
          SetStore(r.st) /\ Finish(r.code)
    /\ UNCHANGED <<jumps, abstentions, ignored>>
    /\ UNCHANGED <<out, lexer, first>>

WriteIn ==
    /\ \E draw \in BOOLEAN : Exec("WriteIn", draw)
    /\ \E n \in InputValues :
          \E r \in Assign(store, ignored, DestVar(Cur.body), n) :
             SetStore(r.st) /\ Finish(r.code)
    /\ UNCHANGED <<jumps, abstentions, ignored>>
    /\ UNCHANGED <<out, lexer, first>>

\* write_number(val): out holds the numbers written, each standing for its
\* rendering; the output is capped at MaxOut numbers in the model.
ReadOut ==
    /\ \E draw \in BOOLEAN : Exec("ReadOut", draw)
    /\ Len(out) < MaxOut
    /\ \E v \in EvalSource(store, Cur.body) :
          /\ Finish(v.code)
          /\ out' = IF v.code = -1 THEN Append(out, v.val) ELSE out
    /\ UNCHANGED <<jumps, abstentions, store, ignored>>
    /\ UNCHANGED <<lexer, first>>

\* Print(bytes): the bytes are written, nothing else of the state changes.
EmitBytes ==
    /\ \E draw \in BOOLEAN : Exec("Print", draw)
    /\ GoNext(abstentions)
    /\ out' = out \o Cur.body.subs
    /\ UNCHANGED <<jumps, abstentions, store, ignored>>
    /\ UNCHANGED <<lexer, first>>

\* DoNext with the test of the stack depth made before the label lookup.
DoNextDepthFirst ==
    /\ \E draw \in BOOLEAN : Exec("DoNext", draw)
    /\ IF TooManyNexts(jumps)
       THEN Fail(IE123) /\ UNCHANGED jumps
       ELSE IF ~HasLabel(program, Cur.body.a)
       THEN Fail(IE129) /\ UNCHANGED jumps
       ELSE /\ jumps' = Append(jumps, pctr)
            /\ pctr' = JumpTo(program, abstentions, pctr,
                              LabelIndex(program, Cur.body.a))
            /\ last' = StepRec("Jump", -1, 1)
            /\ UNCHANGED <<prog, status, err>>
    /\ UNCHANGED <<abstentions, store, ignored>>
    /\ UNCHANGED <<out, lexer, first>>

DoNext ==
    /\ \E draw \in BOOLEAN : Exec("DoNext", draw)
    /\ IF ~HasLabel(program, Cur.body.a)
       THEN Fail(IE129) /\ UNCHANGED jumps
       ELSE IF TooManyNexts(jumps)
       THEN Fail(IE123) /\ UNCHANGED jumps
       ELSE /\ jumps' = Append(jumps, pctr)
            /\ pctr' = JumpTo(program, abstentions, pctr,
                              LabelIndex(program, Cur.body.a))
            /\ last' = StepRec("Jump", -1, 1)
            /\ UNCHANGED <<prog, status, err>>
    /\ UNCHANGED <<abstentions, store, ignored>>
    /\ UNCHANGED <<out, lexer, first>>

\* ComeFrom as a jump to the statement of the label it names.
ComeFromJumps ==
    /\ \E draw \in BOOLEAN : Exec("ComeFrom", draw)
    /\ pctr' = LabelIndex(program, Cur.body.a)
    /\ last' = StepRec("Jump", -1, 1)
    /\ UNCHANGED <<prog, status, err>>
    /\ UNCHANGED <<jumps, abstentions, store, ignored>>
    /\ UNCHANGED <<out, lexer, first>>

\* ComeFrom(_): nothing to do at run time.
ComeFrom ==
    /\ \E draw \in BOOLEAN : Exec("ComeFrom", draw)
    /\ GoNext(abstentions)
    /\ UNCHANGED <<jumps, abstentions, store, ignored>>
    /\ UNCHANGED <<out, lexer, first>>

Resume ==
    /\ \E draw \in BOOLEAN : Exec("Resume", draw)
    /\ LET r == PopJumps(jumps, Cur.body.a)
       IN  IF r.code >= 0
           THEN Fail(r.code) /\ UNCHANGED jumps
           ELSE /\ jumps' = r.jumps
                /\ pctr' = BackTo(program, abstentions, pctr, r.next)
                /\ last' = StepRec("Back", r.next, 1)
                /\ UNCHANGED <<prog, status, err>>
    /\ UNCHANGED <<abstentions, store, ignored>>
    /\ UNCHANGED <<out, lexer, first>>

Forget ==
    /\ \E draw \in BOOLEAN : Exec("Forget", draw)
    /\ LET r == PopJumps(jumps, Cur.body.a)
       IN  IF r.code >= 0
           THEN Fail(r.code) /\ UNCHANGED jumps
           ELSE jumps' = r.jumps /\ GoNext(abstentions)
    /\ UNCHANGED <<abstentions, store, ignored>>
    /\ UNCHANGED <<out, lexer, first>>

Ignore ==
    /\ \E draw \in BOOLEAN : Exec("Ignore", draw)
    /\ ignored' = SetRwAll(ignored, Vars(Cur.body), FALSE)
    /\ GoNext(abstentions)
    /\ UNCHANGED <<jumps, abstentions, store>>
    /\ UNCHANGED <<out, lexer, first>>

Remember ==
    /\ \E draw \in BOOLEAN : Exec("Remember", draw)
    /\ ignored' = SetRwAll(ignored, Vars(Cur.body), TRUE)
    /\ GoNext(abstentions)
    /\ UNCHANGED <<jumps, abstentions, store>>
    /\ UNCHANGED <<out, lexer, first>>

\* The snapshot stack of the variable named by b.
\* The snapshot stack is capped at MaxStash entries in the model.
Stash ==
    /\ \E draw \in BOOLEAN : Exec("Stash", draw)
    /\ \A i \in 1..Len(Vars(Cur.body)) :
          LET v == Vars(Cur.body)[i]
          IN  Len(store[v.t + 1][v.n].stack) + Len(Vars(Cur.body)) <= MaxStash
    /\ SetStore(StashAll(store, Vars(Cur.body)))
    /\ GoNext(abstentions)
    /\ UNCHANGED <<jumps, abstentions, ignored>>
    /\ UNCHANGED <<out, lexer, first>>

Retrieve ==
    /\ \E draw \in BOOLEAN : Exec("Retrieve", draw)
    /\ LET r == RetrieveAll(store, Vars(Cur.body))
       IN  /\ SetStore(r.st)
           /\ IF r.code = -1 THEN GoNext(abstentions) ELSE Fail(r.code)
    /\ UNCHANGED <<jumps, abstentions, ignored>>
    /\ UNCHANGED <<out, lexer, first>>

\* AbstainOrReinstate taking an unknown label for nothing to do.
AbstainOrReinstateLenient(k, flag) ==
    /\ \E draw \in BOOLEAN : Exec(k, draw)
    /\ IF Cur.body.g = "" /\ ~HasLabel(program, Cur.body.a)
       THEN UNCHANGED abstentions /\ GoNext(abstentions)
       ELSE /\ abstentions' = AbstainSet(program, abstentions, Cur.body, flag)
            /\ GoNext(abstentions')
    /\ UNCHANGED <<jumps, store, ignored>>
    /\ UNCHANGED <<out, lexer, first>>

AbstainOrReinstate(k, flag) ==
    /\ \E draw \in BOOLEAN : Exec(k, draw)
    /\ IF Cur.body.g = "" /\ ~HasLabel(program, Cur.body.a)
       THEN Fail(IE139) /\ UNCHANGED abstentions
       ELSE /\ abstentions' = AbstainSet(program, abstentions, Cur.body, flag)
            /\ GoNext(abstentions')
    /\ UNCHANGED <<jumps, store, ignored>>
    /\ UNCHANGED <<out, lexer, first>>

Abstain == AbstainOrReinstate("Abstain", TRUE)

Reinstate == AbstainOrReinstate("Reinstate", FALSE)

Next ==
    \/ FellOff
    \/ SkipAbstained
    \/ ChanceRejected
    \/ GiveUp
    \/ ErrorStmt
    \/ Calc
    \/ Dim
    \/ WriteIn
    \/ ReadOut
    \/ EmitBytes
    \/ DoNext
    \/ ComeFrom
    \/ Resume
    \/ Forget
    \/ Ignore
    \/ Remember
    \/ Stash
    \/ Retrieve
    \/ Abstain
    \/ Reinstate

Spec == Init /\ [][Next]_vars

(***************************************************************************)
(* The interpreter run on the programs of assignments: the statements of   *)
(* these programs are of the kinds below, none is abstained and none has a *)
(* chance below 100.                                                       *)
(***************************************************************************)
InitData == IsDataProgram(program) /\ InitInfo /\ InitEval

NextData ==
    \/ FellOff
    \/ Calc
    \/ Dim
    \/ WriteIn
    \/ Ignore
    \/ Remember
    \/ Stash
    \/ Retrieve

SpecData == InitData /\ [][NextData]_vars

(***************************************************************************)
(* The interpreter run on the programs whose STASH, RETRIEVE, IGNORE and   *)
(* REMEMBER name two variables: one to MaxMixed statements of              *)
(* ListAlphabet.                                                           *)
(***************************************************************************)
ListAlphabet ==
    { ListOf("Stash", <<Spot(0), Spot(1)>>),
      ListOf("Retrieve", <<Spot(0), Spot(1)>>),
      ListOf("Retrieve", <<Spot(1), Spot(0)>>),
      ListOf("Ignore", <<Spot(0), TailVar(0, <<>>)>>),
      ListOf("Remember", <<Spot(0), TailVar(0, <<>>)>>),
      OnVar("Stash", Spot(0)), OnVar("Retrieve", Spot(0)),
      CalcNum(Spot(0), 1), CalcNum(Spot(1), TwoTo16),
      OnVar("WriteIn", Spot(1)),
      DimStmt(TailVar(0, <<>>), <<1>>) }

InitList == DataFamily(program, ListAlphabet, MaxMixed) /\ InitInfo /\ InitEval

SpecList == InitList /\ [][NextData]_vars

(***************************************************************************)
(* The interpreter run on the programs that access one array: the tail     *)
(* array ,0 is dimensioned (or never is), then an element is assigned to,  *)
(* read into .0 or read out.  The dimensions are up to MaxRank numbers of  *)
(* 1..MaxDim, the subscripts up to MaxRank numbers of 0..MaxDim + 1; the   *)
(* programs that go on after an assignment are those whose assignment      *)
(* names an element that exists.                                           *)
(***************************************************************************)
Tuples(lo, hi) == UNION { [1..k -> lo..hi] : k \in 1..MaxRank }

\* DO ,0 SUB subs <- #1
WriteElem(subs) == CalcNum(TailVar(0, subs), 1)

\* DO .0 <- ,0 SUB subs
ReadElem(subs) == CalcVar(Spot(0), TailVar(0, subs))

\* DO READ OUT ,0 SUB subs
ReadOutElem(subs) == [Do("ReadOut", 0) EXCEPT !.body.e = TailVar(0, subs)]

\* The subscripts are within the dimensions dims.
InRange(dims, subs) ==
    /\ Len(subs) = Len(dims)
    /\ \A i \in 1..Len(subs) : subs[i] >= 1 /\ subs[i] <= dims[i]

IsArrayProgram(q) ==
    \E s \in Tuples(0, MaxDim + 1) :
       \/ q = Numbered(<<WriteElem(s)>>, 1)
       \/ q = Numbered(<<ReadElem(s)>>, 1)
       \/ \E d \in Tuples(1, MaxDim) :
             \/ q = Numbered(<<DimStmt(TailVar(0, <<>>), d), WriteElem(s)>>, 2)
             \/ q = Numbered(<<DimStmt(TailVar(0, <<>>), d), ReadElem(s)>>, 2)
             \/ q = Numbered(<<DimStmt(TailVar(0, <<>>), d), ReadOutElem(s)>>, 2)
             \/ /\ InRange(d, s)
                /\ \E t \in Tuples(0, MaxDim + 1) :
                      \/ q = Numbered(<<DimStmt(TailVar(0, <<>>), d),
                                        WriteElem(s), ReadElem(t)>>, 3)
                      \/ q = Numbered(<<DimStmt(TailVar(0, <<>>), d),
                                        WriteElem(s), WriteElem(t)>>, 3)

InitArray == IsArrayProgram(program) /\ InitInfo /\ InitEval

NextArray ==
    \/ FellOff
    \/ Calc
    \/ Dim
    \/ ReadOut

SpecArray == InitArray /\ [][NextArray]_vars

(***************************************************************************)
(* The values of the expressions.  A u32 is the sequence of its 32 bits,   *)
(* the lowest first; a value is an ast::Val, I16 or I32: vt is 16 or 32.   *)
(***************************************************************************)
Word == 32

Half == 16

\* The u32 of a number below 2^31.
Bits(n) == [i \in 1..Word |-> IF i < Word THEN (n \div 2^(i - 1)) % 2 ELSE 0]

\* The number of a u32 below 2^31.
RECURSIVE NatFrom(_, _)
NatFrom(v, i) == IF i >= Word THEN 0 ELSE v[i] * 2^(i - 1) + NatFrom(v, i + 1)

Nat32(v) == NatFrom(v, 1)

\* v <= u16::MAX
FitsHalf(v) == \A i \in (Half + 1)..Word : v[i] = 0

\* 0x55555555, 0xAAAAAAAA and 0xFFFFFFFF
EvenBits == [i \in 1..Word |-> i % 2]

OddBits == [i \in 1..Word |-> 1 - (i % 2)]

AllBits == [i \in 1..Word |-> 1]

IE533 == 533

\* stdops::mingle: the bits of v go to the odd positions (1, 3, ..), those
\* of w to the even positions (0, 2, ..) of the result.
mingle(v, w) ==
    [i \in 1..Word |-> IF i % 2 = 0 THEN v[i \div 2] ELSE w[(i + 1) \div 2]]

\* stdops::select: the bits of v at the set bits of w, from the lowest up,
\* packed at the low end of the result.
RECURSIVE selectFrom(_, _, _, _)
selectFrom(v, w, i, acc) ==
    IF i > Word THEN [j \in 1..Word |-> IF j <= Len(acc) THEN acc[j] ELSE 0]
    ELSE selectFrom(v, w, i + 1, IF w[i] = 1 THEN Append(acc, v[i]) ELSE acc)

select(v, w) == selectFrom(v, w, 1, <<>>)

\* The pairwise operators of the unary reductions.
BitOp(op, a, b) ==
    CASE op = "And" -> a * b
      [] op = "Or"  -> IF a + b > 0 THEN 1 ELSE 0
      [] op = "Xor" -> (a + b) % 2

\* stdops::and_16, or_16, xor_16 (width 16) and and_32, or_32, xor_32
\* (width 32): the word rotated right by one, combined with the word.
unary(op, width, v) ==
    [i \in 1..Word |->
        IF i <= width THEN BitOp(op, v[i], v[(i % width) + 1]) ELSE 0]

\* The arithmetic of the lowered operators, modulo 2^32.
RECURSIVE addFrom(_, _, _, _, _)
addFrom(a, b, i, carry, acc) ==
    IF i > Word THEN acc
    ELSE addFrom(a, b, i + 1, (a[i] + b[i] + carry) \div 2,
                 Append(acc, (a[i] + b[i] + carry) % 2))

plus(a, b) == addFrom(a, b, 1, 0, <<>>)

minus(a, b) == addFrom(a, [i \in 1..Word |-> 1 - b[i]], 1, 1, <<>>)

rshift(a, k) == [i \in 1..Word |-> IF i + k <= Word THEN a[i + k] ELSE 0]

lshift(a, k) == [i \in 1..Word |-> IF i - k >= 1 THEN a[i - k] ELSE 0]

(***************************************************************************)
(* The constructors of ast::Expr.                                          *)
(***************************************************************************)
Num(vt, n) == Expr("Num", vt, n, NoVar, <<>>)

\* A literal of the source: 16-bit, as the parser enforces.
Lit(c) == Num(Half, Bits(c))

\* n(i) of opt.rs: box Expr::Num(VType::I32, i)
N32(n) == Num(Word, n)

VarOf(var) == Expr("Var", 0, <<>>, var, <<>>)

\* The VType of a variable of kind t.
VTypeOf(t) == IF t = 0 \/ t = 2 THEN Half ELSE Word

\* Expr::get_vtype: the declared width of an expression, 32-bit where the
\* expression records none.
GetVType(x) ==
    CASE x.op = "Num" -> x.vt
      [] x.op \in {"And", "Or", "Xor", "Select"} -> x.vt
      [] x.op = "Var" -> VTypeOf(x.var.t)
      [] OTHER -> Word

\* A unary reduction is declared of the width of its operand; the other
\* one-operand operator records no width.
Op1(op, a) ==
    Expr(op, IF op \in {"And", "Or", "Xor"} THEN GetVType(a) ELSE 0,
         <<>>, NoVar, <<a>>)

\* A select is declared of the width of its left operand; the other
\* two-operand operators record no width.
Op2(op, a, b) ==
    Expr(op, IF op = "Select" THEN GetVType(a) ELSE 0, <<>>, NoVar, <<a, b>>)

IsUnary(x) == x.op \in {"And", "Or", "Xor"}

(***************************************************************************)
(* Eval::eval_expr.  The result is the set of its outcomes (the lookup of  *)
(* a variable has several when it is an array element, see ArrayIndex):    *)
(* code -1 with the value, or the code of the error.                       *)
(***************************************************************************)
Value(vt, v) == [code |-> -1, vt |-> vt, val |-> v]

Failed(code) == [code |-> code, vt |-> 0, val |-> <<>>]

\* The lowered operators, which compute on u32.
RsValue(op, v, w) ==
    CASE op = "RsAnd"      -> [i \in 1..Word |-> v[i] * w[i]]
      [] op = "RsOr"       -> [i \in 1..Word |-> BitOp("Or", v[i], w[i])]
      [] op = "RsXor"      -> [i \in 1..Word |-> BitOp("Xor", v[i], w[i])]
      [] op = "RsRshift"   -> rshift(v, Nat32(w))
      [] op = "RsLshift"   -> lshift(v, Nat32(w))
      [] op = "RsNotEqual" -> IF v # w THEN Bits(1) ELSE Bits(0)
      [] op = "RsPlus"     -> plus(v, w)
      [] op = "RsMinus"    -> minus(v, w)

\* The arm of a binary operator, its operands evaluated to v and w.
Apply2(op, v, w) ==
    CASE op = "Mingle" -> IF FitsHalf(v.val) /\ FitsHalf(w.val)
                          THEN Value(Word, mingle(v.val, w.val))
                          ELSE Failed(IE533)
      [] op = "Select" -> Value(Word, select(v.val, w.val))
      [] OTHER         -> Value(Word, RsValue(op, v.val, w.val))

\* The arm of a unary operator, its operand evaluated to v.
Apply1(op, v) ==
    IF op = "RsNot"
    THEN Value(Word, [i \in 1..Word |-> 1 - v.val[i]])
    ELSE Value(v.vt, unary(op, v.vt, v.val))

\* What the operator makes of the outcomes of its operands: the error of
\* the first that fails, the first operand first.
Lift2(vs, ws, op) ==
    UNION { IF v.code # -1 THEN {v}
            ELSE { IF w.code # -1 THEN w ELSE Apply2(op, v, w) : w \in ws } : v \in vs }

Lift1(vs, op) == { IF v.code # -1 THEN v ELSE Apply1(op, v) : v \in vs }

\* eval_expr with the operands of Mingle taken in the other order.
RECURSIVE EvalExprSwapped(_, _)
EvalExprSwapped(st, x) ==
    CASE x.op = "Num" -> {Value(x.vt, x.n)}
      [] x.op = "Var" ->
            { IF o.code # -1 THEN Failed(o.code)
              ELSE Value(VTypeOf(x.var.t), Bits(o.val)) : o \in Lookup(st, x.var) }
      [] x.op = "Mingle" ->
            Lift2(EvalExprSwapped(st, x.args[2]), EvalExprSwapped(st, x.args[1]), x.op)
      [] IsUnary(x) \/ x.op = "RsNot" ->
            Lift1(EvalExprSwapped(st, x.args[1]), x.op)
      [] OTHER ->
            Lift2(EvalExprSwapped(st, x.args[1]), EvalExprSwapped(st, x.args[2]), x.op)

RECURSIVE EvalExpr(_, _)
EvalExpr(st, x) ==
    CASE x.op = "Num" -> {Value(x.vt, x.n)}
      [] x.op = "Var" ->
            { IF o.code # -1 THEN Failed(o.code)
              ELSE Value(VTypeOf(x.var.t), Bits(o.val)) : o \in Lookup(st, x.var) }
      [] IsUnary(x) \/ x.op = "RsNot" ->
            Lift1(EvalExpr(st, x.args[1]), x.op)
      [] OTHER ->
            Lift2(EvalExpr(st, x.args[1]), EvalExpr(st, x.args[2]), x.op)

(***************************************************************************)
(* Optimizer::fold: the operators whose operands are literals are          *)
(* evaluated, from the leaves up.                                          *)
(***************************************************************************)
\* fold without the test of the width of the operands of Mingle.
RECURSIVE FoldUnchecked(_)
FoldUnchecked(x) ==
    CASE x.op = "Mingle" \/ x.op = "Select" ->
            LET v == FoldUnchecked(x.args[1])
                w == FoldUnchecked(x.args[2])
            IN  IF v.op = "Num" /\ w.op = "Num"
                THEN IF x.op = "Mingle" THEN N32(mingle(v.n, w.n))
                     ELSE N32(select(v.n, w.n))
                ELSE [x EXCEPT !.args = <<v, w>>]
      [] IsUnary(x) ->
            LET v == FoldUnchecked(x.args[1])
            IN  IF v.op = "Num" THEN Num(v.vt, unary(x.op, v.vt, v.n))
                ELSE [x EXCEPT !.args = <<v>>]
      [] OTHER -> x

RECURSIVE Fold(_)
Fold(x) ==
    CASE x.op = "Mingle" ->
            LET v == Fold(x.args[1])
                w == Fold(x.args[2])
            IN  IF v.op = "Num" /\ w.op = "Num" /\ FitsHalf(v.n) /\ FitsHalf(w.n)
                THEN N32(mingle(v.n, w.n))
                ELSE [x EXCEPT !.args = <<v, w>>]
      [] x.op = "Select" ->
            LET v == Fold(x.args[1])
                w == Fold(x.args[2])
            IN  IF v.op = "Num" /\ w.op = "Num"
                THEN N32(select(v.n, w.n))
                ELSE [x EXCEPT !.args = <<v, w>>]
      [] IsUnary(x) ->
            LET v == Fold(x.args[1])
            IN  IF v.op = "Num" THEN Num(v.vt, unary(x.op, v.vt, v.n))
                ELSE [x EXCEPT !.args = <<v>>]
      [] OTHER -> x

\* The statements whose expression opt_constant_fold and opt_expressions
\* rewrite.
HasExpr(s) == s.body.k \in {"Calc", "Resume", "Forget"} /\ s.body.x # NoExpr

(***************************************************************************)
(* Optimizer::opt_expr.  u32::count_ones, leading_zeros, trailing_zeros.   *)
(***************************************************************************)
RECURSIVE OnesFrom(_, _)
OnesFrom(v, i) == IF i > Word THEN 0 ELSE v[i] + OnesFrom(v, i + 1)

CountOnes(v) == OnesFrom(v, 1)

CountZeros(v) == Word - CountOnes(v)

TrailingZeros(v) ==
    IF CountOnes(v) = 0 THEN Word
    ELSE (CHOOSE i \in 1..Word : v[i] = 1 /\ \A j \in 1..(i - 1) : v[j] = 0) - 1

LeadingZeros(v) ==
    IF CountOnes(v) = 0 THEN Word
    ELSE Word - (CHOOSE i \in 1..Word :
                    v[i] = 1 /\ \A j \in (i + 1)..Word : v[j] = 0)

\* 1 << k
OneShifted(k) == [i \in 1..Word |-> IF i = k + 1 THEN 1 ELSE 0]

\* The name of the lowered operator of a unary operator.
RsOf(op) == CASE op = "And" -> "RsAnd" [] op = "Or" -> "RsOr" [] op = "Xor" -> "RsXor"

IsNum(x, v) == x.op = "Num" /\ x.n = v

\* The idiom ?(X $ k): Xor(_, Mingle(mx, Num(_, k))).
IsXorMingle(x, k) ==
    /\ x.op = "Xor"
    /\ x.args[1].op = "Mingle"
    /\ IsNum(x.args[1].args[2], Bits(k))

\* The `result` of the arm of Select, vx and wx optimized (NoExpr: None).
RewriteSelect(vx, wx) ==
    IF IsNum(wx, EvenBits)
    THEN IF IsUnary(vx) /\ vx.args[1].op = "Mingle"
         THEN Op2(RsOf(vx.op), vx.args[1].args[1], vx.args[1].args[2])
         ELSE NoExpr
    ELSE IF wx.op = "Num"
            /\ CountZeros(wx.n) = LeadingZeros(wx.n) + TrailingZeros(wx.n)
    THEN IF TrailingZeros(wx.n) = 0
         THEN Op2("RsAnd", vx, N32(wx.n))
         ELSE IF LeadingZeros(wx.n) = 0
         THEN Op2("RsRshift", vx, N32(Bits(TrailingZeros(wx.n))))
         ELSE Op2("RsAnd",
                  Op2("RsRshift", vx, N32(Bits(TrailingZeros(wx.n)))),
                  N32(OneShifted(CountOnes(wx.n) - 1)))
    ELSE NoExpr

\* RewriteRsAnd with the constants of the two ?(X $ k) idioms exchanged.
RewriteRsAndCrossed(vx, wx) ==
    IF IsNum(wx, AllBits) THEN vx
    ELSE IF IsXorMingle(vx, 2) /\ IsNum(wx, Bits(3))
    THEN Op2("RsMinus", N32(Bits(1)), Op2("RsAnd", vx.args[1].args[1], N32(Bits(1))))
    ELSE IF IsXorMingle(vx, 1) /\ IsNum(wx, Bits(3))
    THEN Op2("RsPlus", N32(Bits(2)), Op2("RsAnd", vx.args[1].args[1], N32(Bits(1))))
    ELSE IF vx.op = "Select" /\ vx.args[1] = vx.args[2] /\ IsNum(wx, Bits(1))
    THEN Op2("RsNotEqual", vx.args[1], N32(Bits(0)))
    ELSE NoExpr

\* The `result` of the arm of RsAnd: the last of the four tests that matches.
RewriteRsAnd(vx, wx) ==
    IF IsNum(wx, AllBits) THEN vx
    ELSE IF IsXorMingle(vx, 2) /\ IsNum(wx, Bits(3))
    THEN Op2("RsMinus", N32(Bits(2)), Op2("RsAnd", vx.args[1].args[1], N32(Bits(1))))
    ELSE IF IsXorMingle(vx, 1) /\ IsNum(wx, Bits(3))
    THEN Op2("RsPlus", N32(Bits(1)), Op2("RsAnd", vx.args[1].args[1], N32(Bits(1))))
    ELSE IF vx.op = "Select" /\ vx.args[1] = vx.args[2] /\ IsNum(wx, Bits(1))
    THEN Op2("RsNotEqual", vx.args[1], N32(Bits(0)))
    ELSE NoExpr

Rewrite(y) ==
    CASE y.op = "Select" -> RewriteSelect(y.args[1], y.args[2])
      [] y.op = "RsAnd"  -> RewriteRsAnd(y.args[1], y.args[2])
      [] OTHER           -> NoExpr

\* The outcome of an opt_expr that re-applies itself more than MaxPasses
\* times in a row.
Diverged == Expr("Diverged", 0, <<>>, NoVar, <<>>)

\* opt_expr that applies the rewrite of Select to its own result.
RECURSIVE OptExprAgain(_, _)
OptExprAgain(x, fuel) ==
    LET kids == [i \in 1..Len(x.args) |-> OptExprAgain(x.args[i], fuel)]
        y == [x EXCEPT !.args = kids]
        r == IF y.op = "Select" /\ RewriteSelect(y.args[1], y.args[2]) # NoExpr
             THEN y ELSE Rewrite(y)
    IN  IF \E i \in 1..Len(kids) : kids[i] = Diverged THEN Diverged
        ELSE IF r = NoExpr THEN y
        ELSE IF fuel = 0 THEN Diverged
        ELSE OptExprAgain(r, fuel - 1)

\* opt_expr: the operands first, then the rewrite of the node, then opt_expr
\* again on the result of the rewrite.  fuel is the number of times in a row
\* the function may still re-apply itself.
RECURSIVE OptExpr(_, _)
OptExpr(x, fuel) ==
    LET kids == [i \in 1..Len(x.args) |-> OptExpr(x.args[i], fuel)]
        y == [x EXCEPT !.args = kids]
        r == Rewrite(y)
    IN  IF \E i \in 1..Len(kids) : kids[i] = Diverged THEN Diverged
        ELSE IF r = NoExpr THEN y
        ELSE IF fuel = 0 THEN Diverged
        ELSE OptExpr(r, fuel - 1)

(***************************************************************************)
(* The programs with an operator tree: DO .0 <- x followed by DO READ OUT  *)
(* x, whose expression no pass rewrites, and DO RESUME x, DO FORGET x.     *)
(***************************************************************************)
\* The literals and the masks of the trees.
Literals == {1, 2, 65535}

MaskLiterals == {0, 1, 3, 4, 5, 6, 65280}

MingleMasks == {<<65535, 0>>, <<0, 65535>>, <<65535, 65535>>,
                <<65280, 65280>>, <<4080, 4080>>}

Leaves ==
    {VarOf(Spot(0)), VarOf(Spot(1)), VarOf(TwoSpot(0))}
        \cup {Lit(c) : c \in Literals}

Masks ==
    {Lit(c) : c \in MaskLiterals}
        \cup {Op2("Mingle", Lit(m[1]), Lit(m[2])) : m \in MingleMasks}
        \cup {VarOf(Spot(1))}

Inner ==
    Leaves
        \cup {Op2(op, a, b) : op \in {"Mingle", "Select"}, a \in Leaves, b \in Leaves}
        \cup {Op1(op, a) : op \in {"And", "Or", "Xor"}, a \in Leaves}
        \cup {Op1(op, Op2("Mingle", a, b)) :
                 op \in {"And", "Or", "Xor"}, a \in Leaves, b \in Leaves}
        \cup {Op2("Mingle", m, Lit(1)) : m \in Masks}

Trees == Inner \cup {Op2("Select", e, m) : e \in Inner, m \in Masks}

\* The unary reductions of a select of two literals: '&"#1 ~ #3"'
Reductions ==
    {Op1(op, Op2("Select", Lit(a), Lit(b))) :
        op \in {"And", "Or", "Xor"}, a \in {1, 3}, b \in {1, 3}}

\* DO .0 <- x, DO RESUME x, DO FORGET x, DO READ OUT x
WithExpr(k, x) == [OnVar(k, Spot(0)) EXCEPT !.body.x = x]

IsExprProgram(q) ==
    \/ \E x \in Trees :
          q = Numbered(<<WithExpr("Calc", x), WithExpr("ReadOut", x)>>, 2)
    \/ \E x \in Inner, k \in {"Resume", "Forget"} :
          q = Numbered(<<WithExpr(k, x), WithExpr("ReadOut", x)>>, 2)
    \/ \E x \in Reductions :
          q = Numbered(<<WithExpr("Calc", x), WithExpr("ReadOut", x)>>, 2)

(***************************************************************************)
(* Optimizer::opt_constant_fold and Optimizer::opt_expressions, the first  *)
(* two passes of Optimizer::optimize.  status is the pass that has run.    *)
(***************************************************************************)
MaxPasses == 2

OptConstantFold ==
    /\ status = "parsed"
    /\ program' = [i \in 1..Len(program) |->
                      IF HasExpr(program[i])
                      THEN [program[i] EXCEPT !.body.x = Fold(@)]
                      ELSE program[i]]
    /\ status' = "folded"
    /\ UNCHANGED <<var_info, added_syslib, pctr, jumps, abstentions, store,
                   ignored, out, err, last, lexer, first>>

OptExpressions ==
    /\ status = "folded"
    /\ LET new == [i \in 1..Len(program) |->
                      IF HasExpr(program[i])
                      THEN [program[i] EXCEPT !.body.x = OptExpr(@, MaxPasses)]
                      ELSE program[i]]
       IN  IF \E i \in 1..Len(new) : new[i].body.x = Diverged
           THEN status' = "diverged" /\ UNCHANGED program
           ELSE status' = "lowered" /\ program' = new
    /\ UNCHANGED <<var_info, added_syslib, pctr, jumps, abstentions, store,
                   ignored, out, err, last, lexer, first>>

\* The state the optimizer starts in: no interpreter runs yet.
InitOptimizer ==
    /\ pctr = 0
    /\ jumps = <<>>
    /\ abstentions = [i \in 1..Len(program) |-> program[i].disabled]
    /\ spot = [v \in 0..(NSpot - 1) |-> NewVar(0)]
    /\ twospot = [v \in 0..(NSpot - 1) |-> NewVar(0)]
    /\ tail = [v \in 0..(NSpot - 1) |-> NewVar(EmptyArray)]
    /\ hybrid = [v \in 0..(NSpot - 1) |-> NewVar(EmptyArray)]
    /\ ignored = {}
    /\ out = <<>>
    /\ status = "parsed"
    /\ err = NoErr
    /\ last = NoStep
    /\ NoLexer
    /\ first = NoRun

InitExpr == IsExprProgram(program) /\ InitInfo /\ InitOptimizer

NextExpr ==
    \/ OptConstantFold
    \/ OptExpressions

SpecExpr == InitExpr /\ [][NextExpr]_vars

(***************************************************************************)
(* Optimizer::optimize, all five passes in the order it applies them:      *)
(* opt_constant_fold, opt_expressions, opt_const_output,                   *)
(* opt_abstain_check, opt_var_check.  status is the pass that has run:     *)
(* "parsed", "folded", "lowered", "running" (and then "ok", "error" or     *)
(* "panic": the speculative run of opt_const_output and how it ended),     *)
(* "reduced", "pruned" ("crashed": opt_abstain_check panicked),            *)
(* "optimized".                                                            *)
(***************************************************************************)
MaxOptStmts == 3

\* The labels opt_const_output knows of the system library.
Lbl1900 == 1900
Lbl1901 == 1901
Lbl1910 == 1910
Lbl1911 == 1911

\* The loop of opt_const_output from statement i on: FALSE when it breaks
\* with possible = false.
RECURSIVE ScanFrom(_, _, _, _)
ScanFrom(p, syslib, i, prev_lbl) ==
    IF i > Len(p) THEN TRUE
    ELSE IF p[i].chance < 100 /\ ~(syslib /\ prev_lbl = Lbl1901) THEN FALSE
    ELSE IF p[i].body.k = "WriteIn" THEN FALSE
    ELSE IF /\ p[i].body.k = "DoNext"
            /\ p[i].body.a \in {Lbl1900, Lbl1910}
            /\ ~(prev_lbl = Lbl1911)
    THEN FALSE
    ELSE ScanFrom(p, syslib, i + 1, p[i].label)

Possible(p, syslib) == ScanFrom(p, syslib, 1, 0)

\* NewWith leaving the statement marked as one that is never abstained.
NewWithPruned(k, bytes) ==
    [Do(k, 0) EXCEPT !.body.subs = bytes, !.can_abstain = FALSE]

\* Stmt::new_with(body): default props, can_abstain true.
NewWith(k, bytes) ==
    [Do(k, 0) EXCEPT !.body.subs = bytes, !.can_abstain = TRUE]

\* var_info: (vec![], vec![], vec![], vec![])
NoVarInfo == [t \in 0..3 |-> [v \in {} |-> NewVarInfo]]

\* The scan of opt_const_output: return program, or go on to Eval::new.
OptConstOutputScan ==
    /\ status = "lowered"
    /\ status' = IF Possible(program, added_syslib) THEN "running" ELSE "reduced"
    /\ UNCHANGED <<prog, pctr, jumps, abstentions, store, ignored, out, err, last, lexer, first>>

\* The end of opt_const_output, eval() having returned: the program is
\* returned as it is on Err(_), and is replaced on Ok.
OptConstOutputReturn ==
    /\ status \in {"ok", "error"}
    /\ IF status = "error"
       THEN UNCHANGED prog
       ELSE /\ program' = <<NewWith("Print", out), NewWith("GiveUp", <<>>)>>
            /\ var_info' = NoVarInfo
            /\ added_syslib' = FALSE
    /\ status' = "reduced"
    /\ UNCHANGED <<pctr, jumps, abstentions, store, ignored, out, err, last, lexer, first>>

IsAbstainOrReinstate(s) == s.body.k \in {"Abstain", "Reinstate"}

\* program.labels[&lbl] of a label the program does not define.
AbstainCheckPanics(p) ==
    \E j \in 1..Len(p) :
       IsAbstainOrReinstate(p[j]) /\ p[j].body.g = "" /\ ~HasLabel(p, p[j].body.a)

\* CanAbstain looking at the labels only.
CanAbstainByLabel(p, i) ==
    \E j \in 1..Len(p) :
       /\ IsAbstainOrReinstate(p[j])
       /\ p[j].body.g = ""
       /\ LabelIndex(p, p[j].body.a) + 1 = i

\* can_abstain[i] after the first loop of opt_abstain_check (i from 1).
CanAbstain(p, i) ==
    \E j \in 1..Len(p) :
       /\ IsAbstainOrReinstate(p[j])
       /\ IF p[j].body.g = ""
          THEN LabelIndex(p, p[j].body.a) + 1 = i
          ELSE Stype(p[i]) = p[j].body.g

OptAbstainCheck ==
    /\ status = "reduced"
    /\ IF AbstainCheckPanics(program)
       THEN status' = "crashed" /\ UNCHANGED program
       ELSE /\ status' = "pruned"
            /\ program' = [i \in 1..Len(program) |->
                              IF program[i].body.k # "GiveUp"
                              THEN [program[i] EXCEPT
                                       !.can_abstain = CanAbstain(program, i)]
                              ELSE program[i]]
    /\ UNCHANGED <<var_info, added_syslib, pctr, jumps, abstentions, store,
                   ignored, out, err, last, lexer, first>>

\* Some statement of one of the kinds ks names the variable n of kind t.
Names(p, ks, t, n) ==
    \E i \in 1..Len(p) :
       /\ p[i].body.k \in ks
       /\ \E j \in 1..Len(Vars(p[i].body)) :
             Vars(p[i].body)[j].t = t /\ Vars(p[i].body)[j].n = n

\* VarCheck with the two flags taken from the statements of the other.
VarCheckCrossed(p, info) ==
    [t \in 0..3 |->
       [n \in DOMAIN info[t] |->
          [can_stash  |-> Names(p, {"Ignore", "Remember"}, t, n),
           can_ignore |-> Names(p, {"Stash", "Retrieve"}, t, n)]]]

\* var_info after opt_var_check: every flag reset, then set by the
\* statements that name the variable.
VarCheck(p, info) ==
    [t \in 0..3 |->
       [n \in DOMAIN info[t] |->
          [can_stash  |-> Names(p, {"Stash", "Retrieve"}, t, n),
           can_ignore |-> Names(p, {"Ignore", "Remember"}, t, n)]]]

OptVarCheck ==
    /\ status = "pruned"
    /\ var_info' = VarCheck(program, var_info)
    /\ status' = "optimized"
    /\ UNCHANGED <<program, added_syslib, pctr, jumps, abstentions, store,
                   ignored, out, err, last, lexer, first>>

(***************************************************************************)
(* The programs the optimizer is run on: one to MaxOptStmts statements of  *)
(* OptAlphabet, no label defined twice.  Their expressions are literals    *)
(* and variables.                                                          *)
(***************************************************************************)
Labelled(s, l) == [s EXCEPT !.label = l]

OptAlphabet ==
    { Do("GiveUp", 0),
      Labelled(Do("GiveUp", 0), Lbl1900),
      [Do("ReadOut", 0) EXCEPT !.body.e = Spot(0)],
      Labelled([Do("ReadOut", 0) EXCEPT !.body.e = Spot(0)], Lbl1911),
      Labelled(CalcNum(Spot(0), 1), 1),
      Labelled(CalcNum(Spot(0), 2), Lbl1901),
      DoPct(CalcNum(Spot(0), 3)),
      OnVar("WriteIn", Spot(0)),
      Do("DoNext", Lbl1900),
      Do("ComeFrom", 1),
      OnVar("Stash", Spot(0)), OnVar("Retrieve", TwoSpot(0)),
      OnVar("Ignore", Spot(1)), OnVar("Remember", TailVar(0, <<>>)),
      Do("Abstain", 1), Gerund("Abstain", "Calc"), Gerund("Reinstate", "Calc"),
      DimStmt(TailVar(0, <<>>), <<1>>),
      CalcNum(TailVar(0, <<0>>), 1) }

UniqueLabels(p) ==
    \A i, j \in 1..Len(p) : (p[i].label > 0 /\ p[i].label = p[j].label) => i = j

\* The parser numbers the source lines and gives every statement the same
\* can_abstain.
IsOptProgram(q) ==
    \E n \in 1..MaxOptStmts :
       \E p \in [1..n -> OptAlphabet] :
          \E b \in BOOLEAN :
             /\ UniqueLabels(p)
             /\ WellFormed(p)
             /\ q = [i \in 1..n |-> [p[i] EXCEPT !.srcline = i, !.can_abstain = b]]

InitOpt ==
    /\ IsOptProgram(program)
    /\ var_info = [t \in 0..3 |-> [v \in 0..(NSpot - 1) |-> NewVarInfo]]
    /\ added_syslib \in BOOLEAN
    /\ InitOptimizer

NextOpt ==
    \/ OptConstantFold
    \/ OptExpressions
    \/ OptConstOutputScan
    \/ FellOff
    \/ SkipAbstained
    \/ ChanceRejected
    \/ GiveUp
    \/ Calc
    \/ Dim
    \/ ReadOut
    \/ DoNext
    \/ ComeFrom
    \/ Ignore
    \/ Remember
    \/ Stash
    \/ Retrieve
    \/ Abstain
    \/ Reinstate
    \/ OptConstOutputReturn
    \/ OptAbstainCheck
    \/ OptVarCheck

SpecOpt == InitOpt /\ [][NextOpt]_vars

\* The optimizer is not stopped from outside: the step it can take, it takes.
SpecOptFair == SpecOpt /\ WF_vars(NextOpt)

(***************************************************************************)
(* A run of a program by the interpreter followed by opt_const_output on   *)
(* the same program.  The programs are one to MaxSoundStmts statements of  *)
(* SoundAlphabet: a call of the label 1901, the statement that bears it,   *)
(* statements with a chance of 50, READ OUT .0 and GIVE UP.  When the run  *)
(* has ended, its outcome is put on record in first and the optimizer      *)
(* starts from the state of Eval::new.                                     *)
(***************************************************************************)
MaxSoundStmts == 4

SoundAlphabet ==
    { Do("DoNext", Lbl1901),
      Labelled(CalcNum(Spot(0), 2), Lbl1901),
      DoPct(CalcNum(Spot(0), 3)),
      [Do("ReadOut", 0) EXCEPT !.body.e = Spot(0)],
      DoPct([Do("ReadOut", 0) EXCEPT !.body.e = Spot(0)]),
      Do("GiveUp", 0) }

IsSoundProgram(q) ==
    \E n \in 1..MaxSoundStmts :
       \E p \in [1..n -> SoundAlphabet] :
          UniqueLabels(p) /\ q = [i \in 1..n |-> [p[i] EXCEPT !.srcline = i]]

InitSound ==
    /\ IsSoundProgram(program)
    /\ var_info = [t \in 0..3 |-> [v \in 0..(NSpot - 1) |-> NewVarInfo]]
    /\ added_syslib \in BOOLEAN
    /\ InitEval

\* The run has ended: opt_const_output is called on the program.
OptimizeAfterRun ==
    /\ status \in {"ok", "error"}
    /\ first = NoRun
    /\ first' = [status |-> status, out |-> out]
    /\ status' = "lowered"
    /\ pctr' = 0
    /\ jumps' = <<>>
    /\ abstentions' = [i \in 1..Len(program) |-> program[i].disabled]
    /\ spot' = [v \in 0..(NSpot - 1) |-> NewVar(0)]
    /\ twospot' = [v \in 0..(NSpot - 1) |-> NewVar(0)]
    /\ tail' = [v \in 0..(NSpot - 1) |-> NewVar(EmptyArray)]
    /\ hybrid' = [v \in 0..(NSpot - 1) |-> NewVar(EmptyArray)]
    /\ ignored' = {}
    /\ out' = <<>>
    /\ err' = NoErr
    /\ last' = NoStep
    /\ UNCHANGED <<prog, lexer>>

NextSound ==
    \/ FellOff
    \/ ChanceRejected
    \/ GiveUp
    \/ Calc
    \/ ReadOut
    \/ DoNext
    \/ OptimizeAfterRun
    \/ OptConstOutputScan
    \/ OptConstOutputReturn

SpecSound == InitSound /\ [][NextSound]_vars

(***************************************************************************)
(* lex::Lexer, the buffer around the raw lexer.  A Token is a pair of a    *)
(* kind (TT) and a source line; inner.src holds the tokens the raw lexer   *)
(* produces from the source and inner.at how many of them it has           *)
(* produced.  In these specifications last is the last call: its name and  *)
(* what it returned ("None" for None).                                     *)
(***************************************************************************)
MaxTokens == 3
MaxLine == 2
MaxStream == 4

Token(tt, ln) == [tt |-> tt, line |-> ln]

NoToken == Token("None", 0)

\* The kinds of the tokens of the model: `!`, `.` and DO.
Kinds == {"WOW", "SPOT", "DO"}

\* inner_next returning the two halves of `!` the other way round.
InnerNextSpotFirst(st, in) ==
    IF st # <<>>
    THEN [tok |-> st[Len(st)], stash |-> SubSeq(st, 1, Len(st) - 1), inner |-> in]
    ELSE IF in.at < Len(in.src)
    THEN LET tok == in.src[in.at + 1]
             rest == [in EXCEPT !.at = @ + 1]
         IN  IF tok.tt = "WOW"
             THEN [tok |-> Token("SPOT", tok.line),
                   stash |-> Append(st, Token("SPARK", tok.line)), inner |-> rest]
             ELSE [tok |-> tok, stash |-> st, inner |-> rest]
    ELSE [tok |-> NoToken, stash |-> st, inner |-> in]

\* Lexer::inner_next on the stash st and the raw lexer in: the token it
\* returns (NoToken: None), the stash and the raw lexer it leaves.
InnerNext(st, in) ==
    IF st # <<>>
    THEN [tok |-> st[Len(st)], stash |-> SubSeq(st, 1, Len(st) - 1), inner |-> in]
    ELSE IF in.at < Len(in.src)
    THEN LET tok == in.src[in.at + 1]
             rest == [in EXCEPT !.at = @ + 1]
         IN  IF tok.tt = "WOW"
             THEN [tok |-> Token("SPARK", tok.line),
                   stash |-> Append(st, Token("SPOT", tok.line)), inner |-> rest]
             ELSE [tok |-> tok, stash |-> st, inner |-> rest]
    ELSE [tok |-> NoToken, stash |-> st, inner |-> in]

\* peek that does not put the token it has read back on the stash.
PeekDropping(st, in) ==
    IF st # <<>>
    THEN [tok |-> st[Len(st)], stash |-> st, inner |-> in]
    ELSE InnerNext(st, in)

\* Lexer::peek: the token whose kind it returns, the stash and the raw
\* lexer it leaves.
Peek(st, in) ==
    IF st # <<>>
    THEN [tok |-> st[Len(st)], stash |-> st, inner |-> in]
    ELSE LET r == InnerNext(st, in)
         IN  IF r.tok = NoToken THEN r
             ELSE [r EXCEPT !.stash = Append(r.stash, r.tok)]

Call(op, ret) == [op |-> op, ret |-> ret]

\* The part of the state that belongs to the interpreter and the optimizer.
NotLexer ==
    <<prog, pctr, jumps, abstentions, store, ignored, out, status, err, first>>

\* Iterator::next
LexNext ==
    /\ status = "lexing"
    /\ LET r == InnerNext(stash, inner)
       IN  /\ stash' = r.stash
           /\ inner' = r.inner
           /\ line' = IF r.tok = NoToken THEN line ELSE r.tok.line
           /\ delivered' = IF r.tok = NoToken THEN delivered
                           ELSE Append(delivered, Token(r.tok.tt, r.tok.line))
           /\ last' = Call("next", r.tok.tt)
    /\ UNCHANGED NotLexer

LexPeek ==
    /\ status = "lexing"
    /\ LET r == Peek(stash, inner)
       IN  /\ stash' = r.stash
           /\ inner' = r.inner
           /\ last' = Call("peek", r.tok.tt)
    /\ UNCHANGED <<line, delivered>>
    /\ UNCHANGED NotLexer

\* The tokens still to come: the stash from its top down, then what the
\* raw lexer has not produced, `!` as the two tokens it stands for.
RECURSIVE Expand(_, _)
Expand(src, i) ==
    IF i > Len(src) THEN <<>>
    ELSE IF src[i].tt = "WOW"
    THEN <<Token("SPARK", src[i].line), Token("SPOT", src[i].line)>>
            \o Expand(src, i + 1)
    ELSE <<src[i]>> \o Expand(src, i + 1)

Reverse(s) == [i \in 1..Len(s) |-> s[Len(s) + 1 - i]]

\* Lexer::push(t); the parser pushes no more than MaxStream tokens ahead.
LexPush ==
    /\ status = "lexing"
    /\ Len(delivered) + Len(stash) + Len(Expand(inner.src, inner.at + 1)) < MaxStream
    /\ \E t \in Kinds :
          /\ stash' = Append(stash, Token(t, line))
          /\ last' = Call("push", t)
    /\ UNCHANGED <<inner, line, delivered>>
    /\ UNCHANGED NotLexer

\* The sources: up to MaxTokens tokens, on lines that do not decrease (the
\* raw lexer counts them from startline on).
Sources ==
    UNION { { src \in [1..n -> {Token(tt, ln) : tt \in Kinds, ln \in 1..MaxLine}] :
                \A i \in 1..(n - 1) : src[i].line <= src[i + 1].line } :
            n \in 0..MaxTokens }

\* lex::lex
InitLex ==
    /\ inner \in {[src |-> src, at |-> 0] : src \in Sources}
    /\ stash = <<>>
    /\ line = 1
    /\ delivered = <<>>
    /\ first = NoRun
    /\ last = Call("lex", "None")
    /\ status = "lexing"
    /\ program = <<>>
    /\ InitInfo
    /\ pctr = 0
    /\ jumps = <<>>
    /\ abstentions = <<>>
    /\ spot = [v \in 0..(NSpot - 1) |-> NewVar(0)]
    /\ twospot = [v \in 0..(NSpot - 1) |-> NewVar(0)]
    /\ tail = [v \in 0..(NSpot - 1) |-> NewVar(EmptyArray)]
    /\ hybrid = [v \in 0..(NSpot - 1) |-> NewVar(EmptyArray)]
    /\ ignored = {}
    /\ out = <<>>
    /\ err = NoErr

\* The token stream read with next() and peek().
NextStream ==
    \/ LexNext
    \/ LexPeek

SpecStream == InitLex /\ [][NextStream]_vars

\* The token stream read with next(), peek() and push(t).
NextLex ==
    \/ LexNext
    \/ LexPeek
    \/ LexPush

SpecLex == InitLex /\ [][NextLex]_vars

(***************************************************************************)
(* What the claims speak of.                                               *)
(***************************************************************************)
N == NStmts(program)

\* The statement at pctr is reached with its abstention bit clear.
Reached(k) ==
    /\ Running
    /\ pctr < N
    /\ ~abstentions[pctr + 1]
    /\ Cur.body.k = k

\* The step's chance draw was accepted, so the statement was executed.
Accepted == last'.res # "Rejected"

\* The label of statement i is bound by a COME FROM.
Bound(i) ==
    StmtAt(program, i).label > 0 /\ HasComeFrom(program, StmtAt(program, i).label)

\* The COME FROM statement bound to the label of statement i.
BinderOf(i) == ComeFromIndex(program, StmtAt(program, i).label)

\* Step 6 for statement i under the abstentions abs.
Deflected(abs, i) ==
    IF Bound(i) /\ ~abs[BinderOf(i) + 1] THEN BinderOf(i) ELSE i + 1

\* The statement a successful RESUME n returns to.
ReturnedTo(n) == jumps[Len(jumps) - n + 1]

(***************************************************************************)
(* C1: in every reachable state the NEXT stack jumps holds at most 80      *)
(* entries.                                                                *)
(***************************************************************************)
C1_JumpsAtMost80 == Len(jumps) <= 80

C1_Witness == Len(jumps) = 80 /\ last.res = "Jump"

(***************************************************************************)
(* C2: a DoNext at pc, not abstained, that succeeds with target i pushes   *)
(* exactly pc onto jumps and makes the program counter i; the COME FROM    *)
(* check for the label of statement pc is not made in that step, even if   *)
(* a COME FROM that is not abstained binds that label.                     *)
(***************************************************************************)
C2_JumpBypassesComeFrom ==
    [][ (Reached("DoNext") /\ Accepted /\ HasLabel(program, Cur.body.a)
            /\ Len(jumps) < 80)
        => /\ jumps' = Append(jumps, pctr)
           /\ pctr' = LabelIndex(program, Cur.body.a)
           /\ status' = "running"
           /\ last'.cf = -1 ]_vars

\* A NEXT was taken from a line whose COME FROM, not abstained, is elsewhere.
C2_Witness ==
    /\ last.res = "Jump"
    /\ Bound(last.pc)
    /\ ~abstentions[BinderOf(last.pc) + 1]
    /\ BinderOf(last.pc) # pctr
    /\ jumps[Len(jumps)] = last.pc

(***************************************************************************)
(* C3 as claimed: each time the main loop finishes a statement at pc whose *)
(* label is bound by a COME FROM, the step not being a Jump, the next      *)
(* program counter is the COME FROM's index if its abstention bit is clear *)
(* and pc + 1 if it is abstained.                                          *)
(***************************************************************************)
C3_Claimed ==
    [][ (Running /\ pctr < N /\ Bound(pctr) /\ status' = "running"
            /\ last'.res # "Jump")
        => pctr' = Deflected(abstentions', pctr) ]_vars

(***************************************************************************)
(* C3 as amended: each time the main loop finishes a statement at pc, the  *)
(* step not being a Jump, the COME FROM check is made once, on statement   *)
(* pc or, when the step is the Back of a RESUME, on the statement i        *)
(* returned to: if that statement's label is bound by a COME FROM, the     *)
(* next program counter is the COME FROM's index if its abstention bit is  *)
(* clear, and one past the checked statement if it is abstained.           *)
(***************************************************************************)
C3_ComeFromDeflectsOnce ==
    [][ (Running /\ pctr < N /\ status' = "running" /\ last'.res # "Jump")
        => LET c == IF last'.res = "Back" THEN ReturnedTo(Cur.body.a) ELSE pctr
           IN  Bound(c) =>
                 /\ ~abstentions'[BinderOf(c) + 1] => pctr' = BinderOf(c)
                 /\ abstentions'[BinderOf(c) + 1] => pctr' = c + 1 ]_vars

\* A statement was executed and control was deflected to the COME FROM of
\* its label, which is not the next statement.
C3_Witness ==
    /\ last.res = "Next"
    /\ Bound(last.pc)
    /\ pctr = BinderOf(last.pc)
    /\ pctr # last.pc + 1

(***************************************************************************)
(* C4 as claimed: when a RESUME, not abstained, whose own label is bound   *)
(* by a COME FROM that is not abstained executes successfully, control is  *)
(* deflected to that COME FROM statement.                                  *)
(***************************************************************************)
C4_Claimed ==
    [][ (Reached("Resume") /\ Accepted /\ status' = "running"
            /\ Bound(pctr) /\ ~abstentions[BinderOf(pctr) + 1])
        => pctr' = BinderOf(pctr) ]_vars

(***************************************************************************)
(* C4 as amended: a Back from RESUME does not bypass the COME FROM check,  *)
(* which is made on the statement i the RESUME returns to (the NEXT whose  *)
(* entry was popped) and not on the RESUME's own label: control goes to    *)
(* the COME FROM bound to the label of i if there is one and it is not     *)
(* abstained, and to i + 1 otherwise, also when the RESUME's own label is  *)
(* bound by a COME FROM that is not abstained.                             *)
(***************************************************************************)
C4_BackChecksReturnLine ==
    [][ (Reached("Resume") /\ Accepted /\ status' = "running")
        => pctr' = Deflected(abstentions, ReturnedTo(Cur.body.a)) ]_vars

\* A RESUME whose own label is bound by a COME FROM that is not abstained
\* was executed, and control is not at that COME FROM.
C4_Witness ==
    /\ last.res = "Back"
    /\ Bound(last.pc)
    /\ ~abstentions[BinderOf(last.pc) + 1]
    /\ pctr # BinderOf(last.pc)

C4_WitnessDeflected ==
    /\ last.res = "Back"
    /\ Bound(last.cf)
    /\ pctr = BinderOf(last.cf)

(***************************************************************************)
(* C5: RESUME n with 1 <= n <= len(jumps) removes exactly the n most       *)
(* recent entries of jumps, sets pc to the n-th most recent entry i, then  *)
(* applies the COME FROM check to statement i and otherwise continues at   *)
(* i + 1; RESUME 0 fails with IE621 and RESUME n with n > len(jumps) fails *)
(* with IE632.                                                             *)
(***************************************************************************)
C5_Resume ==
    [][ (Reached("Resume") /\ Accepted)
        => LET n == Cur.body.a
           IN  /\ n = 0 => (status' = "error" /\ err'.code = 621)
               /\ n > Len(jumps) => (status' = "error" /\ err'.code = 632)
               /\ (1 <= n /\ n <= Len(jumps)) =>
                     /\ status' = "running"
                     /\ jumps' = SubSeq(jumps, 1, Len(jumps) - n)
                     /\ pctr' = Deflected(abstentions, jumps[Len(jumps) + 1 - n]) ]_vars

\* RESUME #2 popped two entries and came back to a line other than that of
\* the most recent NEXT.
C5_Witness ==
    /\ last.res = "Back"
    /\ StmtAt(program, last.pc).body.a = 2
    /\ last.cf # last.top

(***************************************************************************)
(* C6: FORGET is non-strict: FORGET n with n greater than the length of    *)
(* jumps empties the stack and execution proceeds to the next statement    *)
(* without an error; FORGET n with n <= len(jumps) removes exactly n       *)
(* entries; FORGET never transfers control.                                *)
(***************************************************************************)
C6_Claimed ==
    [][ (Reached("Forget") /\ Accepted /\ Cur.body.a >= 1)
        => LET n == Cur.body.a
           IN  /\ status' = "running"
               /\ jumps' = IF n > Len(jumps) THEN <<>>
                           ELSE SubSeq(jumps, 1, Len(jumps) - n)
               /\ pctr' = Deflected(abstentions, pctr) ]_vars

(***************************************************************************)
(* C7 as claimed: a DoNext(L) executed while jumps holds 80 entries fails  *)
(* with IE123 and pushes nothing, whether or not L is a defined label.     *)
(***************************************************************************)
C7_Claimed ==
    [][ (Reached("DoNext") /\ Accepted /\ Len(jumps) >= 80)
        => (status' = "error" /\ err'.code = 123 /\ jumps' = jumps) ]_vars

(***************************************************************************)
(* C7 as amended: a DoNext(L) with L a defined label executed while jumps  *)
(* holds 80 entries fails with IE123 and pushes nothing; the label is      *)
(* looked up first, so a DoNext(L) with L absent fails with IE129 and      *)
(* pushes nothing whatever the depth of the stack, at 80 entries too.      *)
(***************************************************************************)
C7_LabelLookupFirst ==
    [][ (Reached("DoNext") /\ Accepted)
        => /\ ~HasLabel(program, Cur.body.a)
                => (status' = "error" /\ err'.code = 129 /\ jumps' = jumps)
           /\ (HasLabel(program, Cur.body.a) /\ Len(jumps) >= 80)
                => (status' = "error" /\ err'.code = 123 /\ jumps' = jumps) ]_vars

\* A DoNext to an absent label was executed on a full NEXT stack.
C7_Witness ==
    /\ status = "error"
    /\ err.code = 129
    /\ Len(jumps) = 80

C7_WitnessFull ==
    /\ status = "error"
    /\ err.code = 123
    /\ Len(jumps) = 80

(***************************************************************************)
(* C8: a statement reached while its abstention bit is set has no effect:  *)
(* the variables, the snapshot stacks, jumps, abstentions and the ignore   *)
(* set are unchanged and no error is raised, also when its body is         *)
(* Error(kind); an Error statement raises its error only when it is        *)
(* reached with the bit clear.                                             *)
(***************************************************************************)
C8_AbstainedHasNoEffect ==
    [][ /\ (Running /\ pctr < N /\ abstentions[pctr + 1])
            => /\ store' = store
               /\ jumps' = jumps
               /\ abstentions' = abstentions
               /\ ignored' = ignored
               /\ status' = "running"
               /\ err' = err
        /\ (Running /\ pctr < N /\ Cur.body.k = "Error" /\ status' = "error")
            => ~abstentions[pctr + 1] ]_vars

\* An abstained Error statement was passed over and execution goes on.
C8_Witness ==
    /\ last.res = "Skip"
    /\ StmtAt(program, last.pc).body.k = "Error"
    /\ status = "running"

(***************************************************************************)
(* C9: whenever the program counter reaches a value >= N, the number of    *)
(* statements, execution stops with the error IE663 whose line datum is N; *)
(* no statement index outside 0..N-1 is ever dereferenced: the program     *)
(* counter never passes N, and the entries of jumps (the targets of Back)  *)
(* and the statement whose label the COME FROM check reads are indices of  *)
(* statements.                                                             *)
(***************************************************************************)
C9_FellOffTheEnd ==
    /\ [](/\ pctr \in 0..N
          /\ \A k \in 1..Len(jumps) : jumps[k] \in 0..(N - 1)
          /\ last.cf \in -1..(N - 1))
    /\ [][ (Running /\ pctr >= N)
            => /\ status' = "error"
               /\ err' = [code |-> 663, line |-> N]
               /\ UNCHANGED <<jumps, abstentions, store, ignored>> ]_vars

\* Execution fell off the end of a program of more than one statement.
C9_Witness ==
    /\ status = "error"
    /\ err.code = 663
    /\ err.line = N
    /\ pctr >= N
    /\ N > 1

(***************************************************************************)
(* C10: eval returns Ok if and only if a GiveUp statement was executed     *)
(* with its abstention bit clear and its chance draw accepted; every other *)
(* way execution stops is an error that carries the source line of the     *)
(* failing statement, or N for falling off the end.                        *)
(***************************************************************************)
C10_OkIffGiveUp ==
    /\ [](status = "ok" =>
            /\ pctr < N
            /\ Cur.body.k = "GiveUp"
            /\ ~abstentions[pctr + 1]
            /\ last.res = "End"
            /\ err = NoErr)
    /\ [](status = "error" =>
            \/ (last.res = "Fell" /\ pctr >= N /\ err.code = 663 /\ err.line = N)
            \/ (last.res = "Err" /\ pctr < N /\ ~abstentions[pctr + 1]
                  /\ err.line = Cur.srcline))
    /\ [][ (Reached("GiveUp") /\ Accepted) => status' = "ok" ]_vars
    /\ [][ (Running /\ status' # "running")
            => \/ status' = "error"
               \/ (Reached("GiveUp") /\ Accepted) ]_vars

\* A GiveUp of chance below 100 was executed and eval returned Ok.
C10_Witness ==
    /\ status = "ok"
    /\ Cur.chance < 100

\* A statement other than the first failed.
C10_WitnessError ==
    /\ status = "error"
    /\ last.res = "Err"
    /\ pctr > 0

(***************************************************************************)
(* What the claims about the variables speak of.                           *)
(***************************************************************************)
\* The flat index the specification gives the subscripts subs of an array of
\* dimensions dims: the sum of (sub_i - 1) times the product of the dim_j, j < i.
RECURSIVE SpecIndexFrom(_, _, _, _)
SpecIndexFrom(dims, subs, i, stride) ==
    IF i > Len(subs) THEN 0
    ELSE (subs[i] - 1) * stride
            + SpecIndexFrom(dims, subs, i + 1, stride * dims[i])

SpecIndex(dims, subs) == SpecIndexFrom(dims, subs, 1, 1)

\* The subscripts are as many as the dimensions, each within 1..dim_i.
ValidSubs(dims, subs) ==
    /\ Len(subs) = Len(dims)
    /\ \A i \in 1..Len(subs) : subs[i] \in 1..dims[i]

\* The variable var names a scalar or an element that exists.
Addressable(st, var) ==
    var.t < 2 \/ ValidSubs(st[var.t + 1][var.n].val.dims, var.subs)

\* The current value of the scalar or of the array element var names.
ValueOf(st, var) ==
    IF var.t < 2 THEN st[var.t + 1][var.n].val
    ELSE st[var.t + 1][var.n].val.elems[
            SpecIndex(st[var.t + 1][var.n].val.dims, var.subs) + 1]

\* The statement at pctr assigns a literal or a number read to its variable.
Assigning ==
    \/ Reached("Calc") /\ Cur.body.e = NoVar
    \/ Reached("WriteIn")

\* The values the assignment of the statement at pctr can assign.
AssignedValues == IF Cur.body.k = "Calc" THEN {Cur.body.b} ELSE InputValues

\* The variable of the statement at pctr is in the ignore set.
DestIgnored == <<Cur.body.t, Cur.body.a>> \in ignored

(***************************************************************************)
(* C11: IGNORE v puts v in the ignore set and REMEMBER v takes it out;     *)
(* while v is in the set every assignment to v by Calc or WriteIn, to a    *)
(* scalar or to an array element, succeeds and changes no variable (no     *)
(* width error, no subscript error); when v is not in the set, so after    *)
(* REMEMBER v, an assignment that succeeds gives v the value assigned.     *)
(***************************************************************************)
C11_IgnoredAssignIsNoOp ==
    /\ [][ (Reached("Ignore") /\ Accepted)
            => ignored' = ignored \cup {<<Cur.body.t, Cur.body.a>>} ]_vars
    /\ [][ (Reached("Remember") /\ Accepted)
            => ignored' = ignored \ {<<Cur.body.t, Cur.body.a>>} ]_vars
    /\ [][ (Assigning /\ Accepted /\ DestIgnored)
            => /\ store' = store
               /\ status' = "running"
               /\ err' = NoErr
               /\ last'.res = "Next" ]_vars
    /\ [][ (Assigning /\ Accepted /\ ~DestIgnored /\ status' = "running"
              /\ Addressable(store, DestVar(Cur.body)))
            => ValueOf(store', DestVar(Cur.body)) \in AssignedValues ]_vars

\* IGNORE .0, an assignment of a value too wide that does nothing, REMEMBER .0
\* and an assignment that takes effect.
C11_Witness ==
    /\ Len(program) >= 4
    /\ program[1].body.k = "Ignore"
    /\ program[2].body.k = "Calc" /\ program[2].body.b = TwoTo16
    /\ program[3].body.k = "Remember"
    /\ program[4].body.k = "Calc" /\ program[4].body.b = 1
    /\ \A i \in 1..4 : program[i].body.t = 0 /\ program[i].body.a = 0
    /\ last.pc = 3
    /\ last.res = "Next"
    /\ spot[0].val = 1

\* IGNORE ,0 of a dimensioned array and an assignment to a subscript out of
\* range that does nothing.
C11_WitnessArray ==
    /\ Len(program) >= 3
    /\ program[1].body.k = "Dim"
    /\ program[2].body.k = "Ignore"
    /\ program[3].body.k = "Calc" /\ program[3].body.subs = <<MaxDim + 1>>
    /\ \A i \in 1..3 : program[i].body.t = 2
    /\ last.pc = 2
    /\ last.res = "Next"
    /\ tail[0].val.elems = [i \in 1..MaxDim |-> 0]

(***************************************************************************)
(* C12: an assignment of a value above 0xFFFF to a 16-bit destination that *)
(* is not ignored (a spot variable, an element of a tail array) fails with *)
(* IE275 and changes no variable, and every 16-bit value a successful      *)
(* assignment leaves is at most 0xFFFF; an assignment to a 32-bit          *)
(* destination never fails with IE275, and to a twospot variable it always *)
(* succeeds.                                                               *)
(***************************************************************************)
C12_WidthError ==
    /\ [][ (Assigning /\ Accepted /\ ~DestIgnored /\ Cur.body.t \in {0, 2})
            => /\ (Cur.body.k = "Calc" /\ Cur.body.b > TwoTo16 - 1)
                    => /\ status' = "error"
                       /\ err'.code = 275
                       /\ store' = store
               /\ (status' = "running"
                     /\ Addressable(store, DestVar(Cur.body)))
                    => ValueOf(store', DestVar(Cur.body)) <= TwoTo16 - 1 ]_vars
    /\ [][ (Assigning /\ Accepted /\ Cur.body.t \in {1, 3})
            => /\ err'.code # 275
               /\ Cur.body.t = 1 => status' = "running" ]_vars

\* The assignment of 0x10000 to an element of a dimensioned tail array failed.
C12_Witness ==
    /\ status = "error"
    /\ err.code = 275
    /\ pctr < N
    /\ Cur.body.k = "Calc"
    /\ Cur.body.t = 2
    /\ Cur.body.b = TwoTo16
    /\ ValidSubs(tail[0].val.dims, Cur.body.subs)

\* 0x10000 was assigned to a twospot variable and to an element of a hybrid
\* array.
C12_Witness32 ==
    /\ status = "running"
    /\ twospot[0].val = TwoTo16
    /\ hybrid[0].val.elems = <<TwoTo16>>

(***************************************************************************)
(* C13: the snapshot stacks are LIFO per variable.  In a straight-line     *)
(* program of STASH .0, RETRIEVE .0 and assignments to .0, the matching    *)
(* STASH of a RETRIEVE is found in the text of the program (the nearest    *)
(* STASH before it with balanced STASH/RETRIEVE pairs in between); before  *)
(* every statement the value of .0 is the literal last assigned or, after  *)
(* a RETRIEVE, the value .0 had at the matching STASH, and the depth of    *)
(* the stack after a RETRIEVE is the depth before the matching STASH.  For *)
(* a variable of any kind a STASH pushes the current value (of an array:   *)
(* its dimensions and all its elements) and leaves it, a RETRIEVE makes    *)
(* the newest snapshot the current value and removes it, and no other      *)
(* statement changes a snapshot stack.                                     *)
(***************************************************************************)
\* The statements of p are STASH, RETRIEVE and assignments of a 16-bit
\* literal, all of the spot variable 0.
OneSpotProgram(p) ==
    \A i \in 1..Len(p) :
       /\ p[i].body.k \in {"Stash", "Retrieve", "Calc"}
       /\ p[i].body.t = 0 /\ p[i].body.a = 0
       /\ p[i].body.e = NoVar /\ p[i].body.b < TwoTo16

\* The STASH that matches a RETRIEVE, searched from statement j downwards
\* with depth unmatched RETRIEVEs seen (-1: there is none).
RECURSIVE MatchFrom(_, _, _)
MatchFrom(p, j, depth) ==
    IF j < 0 THEN -1
    ELSE IF StmtAt(p, j).body.k = "Retrieve" THEN MatchFrom(p, j - 1, depth + 1)
    ELSE IF StmtAt(p, j).body.k = "Stash"
         THEN IF depth = 0 THEN j ELSE MatchFrom(p, j - 1, depth - 1)
    ELSE MatchFrom(p, j - 1, depth)

MatchOf(p, i) == MatchFrom(p, i - 1, 0)

\* The value the claim gives .0 before statement i of p.
RECURSIVE ValueBefore(_, _)
ValueBefore(p, i) ==
    IF i = 0 THEN 0
    ELSE IF StmtAt(p, i - 1).body.k = "Calc" THEN StmtAt(p, i - 1).body.b
    ELSE IF StmtAt(p, i - 1).body.k = "Retrieve"
         THEN ValueBefore(p, MatchOf(p, i - 1))
    ELSE ValueBefore(p, i - 1)

\* The depth the claim gives the snapshot stack of .0 before statement i.
RECURSIVE DepthBefore(_, _)
DepthBefore(p, i) ==
    IF i = 0 THEN 0
    ELSE IF StmtAt(p, i - 1).body.k = "Stash" THEN DepthBefore(p, i - 1) + 1
    ELSE IF StmtAt(p, i - 1).body.k = "Retrieve"
         THEN DepthBefore(p, MatchOf(p, i - 1))
    ELSE DepthBefore(p, i - 1)

\* The variable, of any kind, that the statement at pctr names.
CurVar(st) == st[Cur.body.t + 1][Cur.body.a]

\* The snapshot stacks of all the variables.
Stacks(st) ==
    [t \in 1..4 |-> [n \in DOMAIN st[t] |-> st[t][n].stack]]

C13_StashRetrieveLifo ==
    /\ []((Running /\ OneSpotProgram(program))
            => /\ spot[0].val = ValueBefore(program, pctr)
               /\ Len(spot[0].stack) = DepthBefore(program, pctr))
    /\ [][ (Reached("Stash") /\ Accepted)
            => /\ CurVar(store').stack
                    = Append(CurVar(store).stack, CurVar(store).val)
               /\ CurVar(store').val = CurVar(store).val ]_vars
    /\ [][ (Reached("Retrieve") /\ Accepted /\ CurVar(store).stack # <<>>)
            => /\ CurVar(store').val
                    = CurVar(store).stack[Len(CurVar(store).stack)]
               /\ CurVar(store').stack
                    = SubSeq(CurVar(store).stack, 1,
                             Len(CurVar(store).stack) - 1)
               /\ status' = "running" ]_vars
    /\ [][ (Running /\ pctr < N /\ Cur.body.k \notin {"Stash", "Retrieve"})
            => Stacks(store') = Stacks(store) ]_vars

\* STASH .0, an assignment, a balanced STASH and RETRIEVE, and the RETRIEVE
\* that matches the first STASH: .0 is back to the value it had there.
C13_Witness ==
    /\ OneSpotProgram(program)
    /\ last.res = "Next"
    /\ last.pc = 4
    /\ StmtAt(program, 4).body.k = "Retrieve"
    /\ MatchOf(program, 4) = 0
    /\ StmtAt(program, 1).body.k = "Calc"
    /\ StmtAt(program, 2).body.k = "Stash"
    /\ StmtAt(program, 3).body.k = "Retrieve"
    /\ spot[0].val = 0
    /\ spot[0].stack = <<>>
    /\ pctr = 5

\* A tail array was dimensioned, stashed, assigned to and retrieved: the
\* dimensions and the elements are those of the STASH.
C13_WitnessArray ==
    /\ Len(program) >= 4
    /\ StmtAt(program, 0).body.k = "Dim"
    /\ StmtAt(program, 1).body.k = "Stash"
    /\ StmtAt(program, 2).body.k = "Calc"
    /\ StmtAt(program, 3).body.k = "Retrieve"
    /\ \A i \in 1..4 : program[i].body.t = 2
    /\ last.pc = 3 /\ last.res = "Next" /\ StmtAt(program, 2).srcline = 3
    /\ tail[0].val = [dims |-> <<MaxDim>>, elems |-> [i \in 1..MaxDim |-> 0]]
    /\ tail[0].stack = <<>>

(***************************************************************************)
(* C14: a RETRIEVE of a variable whose snapshot stack is empty fails with  *)
(* IE436 and changes nothing, and a STASH or a RETRIEVE of one variable    *)
(* changes neither the current value nor the snapshot stack of any other   *)
(* variable, a variable of another kind with the same number included.     *)
(***************************************************************************)
C14_RetrieveEmptyAndIndependence ==
    /\ [][ (Reached("Retrieve") /\ Accepted /\ CurVar(store).stack = <<>>)
            => /\ status' = "error"
               /\ err'.code = 436
               /\ store' = store ]_vars
    /\ [][ ((Reached("Stash") \/ Reached("Retrieve")) /\ Accepted)
            => \A t \in 1..4 : \A n \in DOMAIN store[t] :
                  <<t - 1, n>> # <<Cur.body.t, Cur.body.a>>
                     => store'[t][n] = store[t][n] ]_vars

\* RETRIEVE .0 failed on its empty stack while :0, the variable of another
\* kind with the same number, holds a snapshot.
C14_Witness ==
    /\ status = "error"
    /\ err.code = 436
    /\ pctr < N
    /\ Cur.body.k = "Retrieve"
    /\ Cur.body.t = 0
    /\ spot[Cur.body.a].stack = <<>>
    /\ twospot[Cur.body.a].stack # <<>>

\* STASH and RETRIEVE of .0 went by while .1 and :0 kept their snapshots.
C14_WitnessOthers ==
    /\ last.res = "Next"
    /\ last.pc >= 0
    /\ StmtAt(program, last.pc).body.k = "Retrieve"
    /\ StmtAt(program, last.pc).body.t = 0
    /\ StmtAt(program, last.pc).body.a = 0
    /\ (spot[1].stack # <<>> \/ twospot[0].stack # <<>>)

(***************************************************************************)
(* What the claims about ABSTAIN and REINSTATE speak of.                   *)
(***************************************************************************)
\* The statement at pctr is an ABSTAIN (flag TRUE) or a REINSTATE (flag
\* FALSE), reached with its bit clear.
AbstainStep(flag) == IF flag THEN Reached("Abstain") ELSE Reached("Reinstate")

LabelForm == Cur.body.g = ""

\* The type tag of a statement as the claims give it: Dim counts as
\* CALCULATING, and GiveUp, Error and Print have no gerund.
TagOf(s) ==
    IF s.body.k \in {"Calc", "Dim"} THEN "Calc"
    ELSE IF s.body.k = "DoNext" THEN "Next"
    ELSE IF s.body.k \in {"GiveUp", "Error", "Print"} THEN "none"
    ELSE s.body.k

(***************************************************************************)
(* C15: ABSTAIN FROM (L) sets and REINSTATE (L) clears the abstention bit  *)
(* of the statement labelled L and changes the bit of no other statement,  *)
(* whatever the bit was before (so after an ABSTAIN and a REINSTATE the    *)
(* bit is false, however many ABSTAINs came first); a statement reached    *)
(* with its bit false is not skipped: it is executed, if its chance draw   *)
(* is accepted.                                                            *)
(***************************************************************************)
C15_AbstainByLabel ==
    /\ [][ \A flag \in BOOLEAN :
             (AbstainStep(flag) /\ Accepted /\ LabelForm
                 /\ HasLabel(program, Cur.body.a))
              => /\ abstentions' =
                       [i \in 1..N |->
                          IF program[i].label = Cur.body.a
                          THEN flag ELSE abstentions[i]]
                 /\ status' = "running" ]_vars
    /\ [][ (Running /\ pctr < N /\ ~abstentions[pctr + 1])
            => /\ last'.res # "Skip"
               /\ last'.pc = pctr
               /\ Cur.chance = 100 => last'.res # "Rejected" ]_vars

\* (1) DO ABSTAIN FROM (1), DO REINSTATE (1), DO (1) NEXT: statement (1)
\* abstained from itself, was reinstated, and was executed when reached again.
C15_Witness ==
    /\ Len(program) = 3
    /\ StmtAt(program, 0).label = 1
    /\ StmtAt(program, 0).body.k = "Abstain" /\ StmtAt(program, 0).body.a = 1
    /\ StmtAt(program, 1).body.k = "Reinstate" /\ StmtAt(program, 1).body.a = 1
    /\ StmtAt(program, 2).body.k = "DoNext"
    /\ jumps = <<2>>
    /\ last.pc = 0
    /\ last.res = "Next"

\* A statement that began abstained (DO NOT) was reinstated and executed.
C15_WitnessDoNot ==
    /\ last.pc >= 0
    /\ last.res = "Next"
    /\ StmtAt(program, last.pc).disabled
    /\ StmtAt(program, last.pc).label = 1
    /\ StmtAt(program, last.pc).body.k = "Calc"
    /\ spot[0].val = 1

(***************************************************************************)
(* C16: an ABSTAIN or a REINSTATE that names a label the label table does  *)
(* not hold fails with IE139 and changes no abstention bit.                *)
(***************************************************************************)
C16_UnknownLabel ==
    [][ \A flag \in BOOLEAN :
          (AbstainStep(flag) /\ Accepted /\ LabelForm
               /\ ~HasLabel(program, Cur.body.a))
            => /\ status' = "error"
               /\ err'.code = 139
               /\ abstentions' = abstentions ]_vars

\* A REINSTATE of an unknown label failed in a program with a bit set.
C16_Witness ==
    /\ status = "error"
    /\ err.code = 139
    /\ pctr < N
    /\ Cur.body.k = "Reinstate"
    /\ \E i \in 1..N : abstentions[i]

\* An ABSTAIN of an unknown label failed.
C16_WitnessAbstain ==
    /\ status = "error"
    /\ err.code = 139
    /\ pctr < N
    /\ Cur.body.k = "Abstain"

(***************************************************************************)
(* C17: a gerund-form ABSTAIN sets, and a gerund-form REINSTATE clears,    *)
(* the abstention bit of every statement whose type tag is the gerund (a   *)
(* Dim counts as CALCULATING) and of no other statement; the bit of a      *)
(* GiveUp, an Error or a Print statement is never changed by one.          *)
(***************************************************************************)
C17_AbstainByGerund ==
    [][ \A flag \in BOOLEAN :
          (AbstainStep(flag) /\ Accepted /\ ~LabelForm)
            => /\ abstentions' =
                     [i \in 1..N |->
                        IF TagOf(program[i]) = Cur.body.g
                        THEN flag ELSE abstentions[i]]
               /\ \A i \in 1..N :
                     program[i].body.k \in {"GiveUp", "Error", "Print"}
                        => abstentions'[i] = abstentions[i]
               /\ status' = "running" ]_vars

\* ABSTAIN FROM CALCULATING was executed in a program with a Dim and a
\* Print statement: the Dim is abstained, the Print is not.
C17_Witness ==
    /\ last.pc >= 0
    /\ last.res = "Next"
    /\ StmtAt(program, last.pc).body.k = "Abstain"
    /\ StmtAt(program, last.pc).body.g = "Calc"
    /\ \E i, j \in 1..N :
          /\ program[i].body.k = "Dim"
          /\ ~program[i].disabled
          /\ abstentions[i]
          /\ program[j].body.k = "Print"
          /\ ~abstentions[j]

(***************************************************************************)
(* C18: an iteration of the main loop consults the chance draw at most     *)
(* once, and not at all for a statement whose abstention bit is set; a     *)
(* rejected draw changes nothing of the interpreter's state, and the COME  *)
(* FROM check for the statement's label is still made.                     *)
(***************************************************************************)
C18_ChanceDraw ==
    /\ [](last.draws <= 1)
    /\ [][ (Running /\ pctr < N /\ abstentions[pctr + 1])
            => last'.draws = 0 ]_vars
    /\ [][ last'.res = "Rejected"
            => /\ UNCHANGED <<jumps, abstentions, store, ignored, status, err>>
               /\ last'.cf = pctr
               /\ pctr' = Deflected(abstentions, pctr) ]_vars

\* The draw of a statement of chance below 100 was rejected and the COME
\* FROM bound to its label took control, to a statement other than the next.
C18_Witness ==
    /\ last.res = "Rejected"
    /\ StmtAt(program, last.pc).chance < 100
    /\ Bound(last.pc)
    /\ pctr = BinderOf(last.pc)
    /\ pctr # last.pc + 1

\* A statement of chance below 100 was skipped as abstained, without a draw.
C18_WitnessAbstained ==
    /\ last.res = "Skip"
    /\ StmtAt(program, last.pc).chance < 100
    /\ last.draws = 0

(***************************************************************************)
(* What the claims about the arrays speak of.                              *)
(***************************************************************************)
\* The array variable the statement at pctr writes an element of (Calc).
WritesElem == Reached("Calc") /\ Cur.body.t >= 2 /\ Cur.body.e = NoVar

\* The array variable the statement at pctr reads an element of.
ReadsElem ==
    (Reached("Calc") \/ Reached("ReadOut")) /\ Cur.body.e.t >= 2

\* The array a variable reference names.
ArrayOf(st, var) == st[var.t + 1][var.n].val

(***************************************************************************)
(* C19: every read or write of an array element whose subscripts are not   *)
(* as many as the dimensions of the array, or of which one is outside      *)
(* 1..dim_i (subscript 0 and an array never dimensioned included), fails   *)
(* with IE241 and changes no variable.                                     *)
(***************************************************************************)
C19_Claimed ==
    /\ [][ (WritesElem /\ Accepted /\ ~DestIgnored
              /\ ~ValidSubs(ArrayOf(store, DestVar(Cur.body)).dims, Cur.body.subs))
            => /\ status' = "error"
               /\ err'.code = 241
               /\ store' = store ]_vars
    /\ [][ (ReadsElem /\ Accepted
              /\ ~ValidSubs(ArrayOf(store, Cur.body.e).dims, Cur.body.e.subs))
            => /\ status' = "error"
               /\ err'.code = 241
               /\ store' = store ]_vars

(***************************************************************************)
(* C20: for every array and every valid tuple of subscripts the element    *)
(* accessed is the one at the flat index sum of (sub_i - 1) times the      *)
(* product of the dim_j, j < i: a write changes that element and no other, *)
(* a read returns that element, and the index is below the number of       *)
(* elements.                                                               *)
(***************************************************************************)
C20_Claimed ==
    /\ [][ (WritesElem /\ Accepted /\ ~DestIgnored /\ FitsU16(Cur.body.b)
              /\ ValidSubs(ArrayOf(store, DestVar(Cur.body)).dims, Cur.body.subs))
            => LET arr == ArrayOf(store, DestVar(Cur.body))
                   ix == SpecIndex(arr.dims, Cur.body.subs)
               IN  /\ ix < Len(arr.elems)
                   /\ status' = "running"
                   /\ ArrayOf(store', DestVar(Cur.body)) =
                         [arr EXCEPT !.elems[ix + 1] = Cur.body.b] ]_vars
    /\ [][ (ReadsElem /\ Reached("Calc") /\ Accepted /\ ~DestIgnored
              /\ Cur.body.t = 0
              /\ ValidSubs(ArrayOf(store, Cur.body.e).dims, Cur.body.e.subs))
            => LET arr == ArrayOf(store, Cur.body.e)
                   ix == SpecIndex(arr.dims, Cur.body.e.subs)
               IN  /\ ix < Len(arr.elems)
                   /\ status' = "running"
                   /\ spot'[Cur.body.a].val = arr.elems[ix + 1] ]_vars

(***************************************************************************)
(* What the claims about the expressions speak of.  The programs of        *)
(* SpecExpr keep the expression as it was written in their second          *)
(* statement, a ReadOut, which no pass rewrites.                           *)
(***************************************************************************)
ShortSamples == {0, 1, 2, 23130, 65535}

LongSamples == {3, 65536, 2147483647}

\* The interpreter states in which .0 = a, .1 = b and :0 = c.
StoreOf(a, b, c) ==
    << [v \in 0..(NSpot - 1) |-> NewVar(IF v = 0 THEN a ELSE b)],
       [v \in 0..(NSpot - 1) |-> NewVar(c)],
       [v \in 0..(NSpot - 1) |-> NewVar(EmptyArray)],
       [v \in 0..(NSpot - 1) |-> NewVar(EmptyArray)] >>

Stores == {StoreOf(a, b, c) : a \in ShortSamples, b \in ShortSamples, c \in LongSamples}

\* The expression as written, and the expression the passes have made of it.
Written == program[2].body.x

Rewritten == program[1].body.x

\* The value of an expression without arrays, which has one outcome.
TheValue(st, x) == CHOOSE o \in EvalExpr(st, x) : TRUE

\* Both operands evaluate to 16-bit values.
Operands16(st, a, b) ==
    /\ TheValue(st, a).code = -1 /\ FitsHalf(TheValue(st, a).val)
    /\ TheValue(st, b).code = -1 /\ FitsHalf(TheValue(st, b).val)

\* '#65535 $ #0' and '#0 $ #65535'
OddMask == Op2("Mingle", Lit(65535), Lit(0))

EvenMask == Op2("Mingle", Lit(0), Lit(65535))

(***************************************************************************)
(* C21: mingle and select are inverses.  For all 16-bit v and w, selecting *)
(* from mingle(v, w) with 0xAAAAAAAA gives v and with 0x55555555 gives w;  *)
(* the bits of v are at the odd and those of w at the even positions of    *)
(* mingle(v, w).  Constant folding computes the same numbers.              *)
(***************************************************************************)
C21_MingleSelectInverse ==
    (Written.op = "Select" /\ Written.args[1].op = "Mingle"
       /\ Written.args[2] \in {OddMask, EvenMask})
    => LET a == Written.args[1].args[1]
           b == Written.args[1].args[2]
           odd == Written.args[2] = OddMask
       IN  /\ \A st \in Stores :
                 Operands16(st, a, b) =>
                    LET v == TheValue(st, a).val
                        w == TheValue(st, b).val
                        m == TheValue(st, Written.args[1]).val
                    IN  /\ EvalExpr(st, Written.args[2])
                              = {Value(Word, IF odd THEN OddBits ELSE EvenBits)}
                        /\ \A k \in 1..Half : m[2 * k] = v[k] /\ m[2 * k - 1] = w[k]
                        /\ EvalExpr(st, Written)
                              = {Value(Word, IF odd THEN v ELSE w)}
           /\ (status # "parsed" /\ HasExpr(program[1])
                  /\ a.op = "Num" /\ b.op = "Num")
                 => Rewritten = N32(IF odd THEN a.n ELSE b.n)

\* '"#2 $ #1" ~ "#65535 $ #0"' was folded to 2.
C21_Witness ==
    /\ status = "folded"
    /\ Written = Op2("Select", Op2("Mingle", Lit(2), Lit(1)), OddMask)
    /\ Rewritten = N32(Bits(2))

\* '".0 $ .1" ~ "#0 $ #65535"', which evaluates to .1, went through both
\* passes.
C21_WitnessVars ==
    /\ status = "lowered"
    /\ Written = Op2("Select", Op2("Mingle", VarOf(Spot(0)), VarOf(Spot(1))), EvenMask)
    /\ Rewritten = Op2("Select", Op2("Mingle", VarOf(Spot(0)), VarOf(Spot(1))),
                       N32(EvenBits))

\* The expression of statement i and what the pass being taken makes of it.
Folding(i) == status = "parsed" /\ HasExpr(program[i])

Lowering(i) == status = "folded" /\ HasExpr(program[i])

\* The set bits of the literal mask m are contiguous (and not 0x55555555,
\* which is never taken for a run of bits).
ContiguousMask(m) ==
    /\ m.op = "Num"
    /\ m.n # EvenBits
    /\ CountZeros(m.n) = LeadingZeros(m.n) + TrailingZeros(m.n)

\* The two expressions evaluate to the same ast::Val or to the same error,
\* in every state.
SameValue(x, y) == \A st \in Stores : EvalExpr(st, x) = EvalExpr(st, y)

\* The two expressions evaluate to the same number or to the same error, in
\* every state (the number may be an I16 for the one and an I32 for the
\* other).
SameNumber(x, y) ==
    \A st \in Stores :
       /\ TheValue(st, x).code = TheValue(st, y).code
       /\ TheValue(st, x).val = TheValue(st, y).val

(***************************************************************************)
(* C22: the lowering of Select(x, N), N a literal whose set bits are       *)
(* contiguous, preserves the value: for every x and every such N the       *)
(* lowered expression (RsAnd(x, N), RsRshift(x, tz) or RsAnd(RsRshift(x,   *)
(* tz), mask), by the zeros at the ends of N) evaluates to select(x, N).   *)
(***************************************************************************)
C22_Claimed ==
    [][ \A i \in 1..Len(program) :
          LET x == program[i].body.x
              y == program'[i].body.x
          IN  (Lowering(i) /\ x.op = "Select" /\ ContiguousMask(x.args[2])
                 /\ y = RewriteSelect(OptExpr(x.args[1], MaxPasses), x.args[2]))
              => /\ status' = "lowered"
                 /\ y.op \in {"RsAnd", "RsRshift"}
                 /\ SameNumber(y, x) ]_vars

(***************************************************************************)
(* C23: each idiom rewrite preserves the value, for all 16-bit operands x  *)
(* and y: Select(UnaryOp(Mingle(x, y)), 0x55555555) is the bitwise And, Or *)
(* or Xor of x and y; ?(x $ 1) & 3 is 1 + (x & 1); ?(x $ 2) & 3 is         *)
(* 2 - (x & 1); expr & 0xFFFFFFFF is expr; (x ~ x) & 1 is 1 when x is not  *)
(* 0 and 0 when it is.                                                     *)
(***************************************************************************)
C23_IdiomsPreserveValue ==
    [][ \A i \in 1..Len(program) :
          Lowering(i) =>
             LET x == program[i].body.x
                 y == program'[i].body.x
                 e == x.args[1]
                 m == x.args[2]
             IN  x.op = "Select" =>
                 /\ (IsNum(m, EvenBits) /\ IsUnary(e) /\ e.args[1].op = "Mingle")
                       => /\ y.op = RsOf(e.op)
                          /\ \A st \in Stores :
                                Operands16(st, e.args[1].args[1], e.args[1].args[2])
                                => /\ EvalExpr(st, y) = EvalExpr(st, x)
                                   /\ \A k \in 1..Half :
                                         TheValue(st, y).val[k] =
                                            BitOp(e.op,
                                                  TheValue(st, e.args[1].args[1]).val[k],
                                                  TheValue(st, e.args[1].args[2]).val[k])
                 /\ (IsNum(m, Bits(3)) /\ (IsXorMingle(e, 1) \/ IsXorMingle(e, 2)))
                       => /\ y.op = IF IsXorMingle(e, 1) THEN "RsPlus" ELSE "RsMinus"
                          /\ \A st \in Stores :
                                Operands16(st, e.args[1].args[1], e.args[1].args[2])
                                => /\ EvalExpr(st, y) = EvalExpr(st, x)
                                   /\ Nat32(TheValue(st, y).val) =
                                         IF IsXorMingle(e, 1)
                                         THEN 1 + TheValue(st, e.args[1].args[1]).val[1]
                                         ELSE 2 - TheValue(st, e.args[1].args[1]).val[1]
                 /\ IsNum(m, AllBits)
                       => /\ y = OptExpr(e, MaxPasses)
                          /\ \A st \in Stores :
                                TheValue(st, x).code = -1
                                => TheValue(st, y).val = TheValue(st, x).val
                 /\ (IsNum(m, Bits(1)) /\ e.op = "Select" /\ e.args[1] = e.args[2])
                       => /\ y.op = "RsNotEqual"
                          /\ \A st \in Stores :
                                /\ EvalExpr(st, y) = EvalExpr(st, x)
                                /\ TheValue(st, y).val =
                                      IF TheValue(st, e.args[1]).val = Bits(0)
                                      THEN Bits(0) ELSE Bits(1) ]_vars

\* '?".0 $ #1"' ~ #3 was lowered to 1 + (.0 & 1).
C23_Witness ==
    /\ status = "lowered"
    /\ Written = Op2("Select", Op1("Xor", Op2("Mingle", VarOf(Spot(0)), Lit(1))), Lit(3))
    /\ Rewritten = Op2("RsPlus", N32(Bits(1)),
                       Op2("RsAnd", VarOf(Spot(0)), N32(Bits(1))))

\* '&".0 $ .1"' ~ '#0 $ #65535' was lowered to .0 & .1.
C23_WitnessAnd ==
    /\ status = "lowered"
    /\ Written = Op2("Select", Op1("And", Op2("Mingle", VarOf(Spot(0)), VarOf(Spot(1)))),
                     EvenMask)
    /\ Rewritten = Op2("RsAnd", VarOf(Spot(0)), VarOf(Spot(1)))

\* '.0 ~ .0' ~ #1 was lowered to .0 != 0.
C23_WitnessNotEqual ==
    /\ status = "lowered"
    /\ Written = Op2("Select", Op2("Select", VarOf(Spot(0)), VarOf(Spot(0))), Lit(1))
    /\ Rewritten = Op2("RsNotEqual", VarOf(Spot(0)), N32(Bits(0)))

(***************************************************************************)
(* C24: expression rewriting terminates for every expression tree: the     *)
(* number of times opt_expr re-applies itself to the result of a rewrite   *)
(* is bounded by a fixed number of passes, so opt_expressions always       *)
(* finishes.                                                               *)
(***************************************************************************)
C24_RewritingTerminates ==
    /\ [](status # "diverged")
    /\ [][ status = "folded" =>
             /\ status' = "lowered"
             /\ \A i \in 1..Len(program) :
                   HasExpr(program[i]) =>
                      /\ program'[i].body.x = OptExpr(program[i].body.x, MaxPasses)
                      /\ program'[i].body.x # Diverged
                      /\ Rewrite(program'[i].body.x) = NoExpr ]_vars

\* '.0 ~ .0' ~ #1 took two rewrites in a row: to ('.0 ~ .0') & 1, then to
\* .0 != 0.
C24_Witness ==
    /\ status = "lowered"
    /\ Written = Op2("Select", Op2("Select", VarOf(Spot(0)), VarOf(Spot(0))), Lit(1))
    /\ Rewritten.op = "RsNotEqual"
    /\ OptExpr(Written, 1) = Diverged

(***************************************************************************)
(* C25: constant folding preserves evaluation.  For every expression of a  *)
(* Calc, Resume or Forget the folded expression evaluates to the same      *)
(* value or the same error as the original in every interpreter state; a   *)
(* Mingle of two literals is folded only when both are at most 0xFFFF and  *)
(* is otherwise left in place, which keeps its runtime error.              *)
(***************************************************************************)
C25_FoldPreservesValue ==
    [][ status = "parsed" =>
          \A i \in 1..Len(program) :
             LET x == program[i].body.x
                 y == program'[i].body.x
             IN  /\ ~HasExpr(program[i]) => program'[i] = program[i]
                 /\ HasExpr(program[i]) =>
                       /\ SameValue(y, x)
                       /\ (x.op = "Mingle" /\ Fold(x.args[1]).op = "Num"
                             /\ Fold(x.args[2]).op = "Num")
                          => IF FitsHalf(Fold(x.args[1]).n) /\ FitsHalf(Fold(x.args[2]).n)
                             THEN y.op = "Num"
                             ELSE /\ y = Op2("Mingle", Fold(x.args[1]), Fold(x.args[2]))
                                  /\ \A st \in Stores : EvalExpr(st, y) = {Failed(IE533)} ]_vars

\* '"#65535 $ #0" $ #1' was left a Mingle, its first operand folded to
\* 0xAAAAAAAA.
C25_Witness ==
    /\ status = "folded"
    /\ Written = Op2("Mingle", OddMask, Lit(1))
    /\ Rewritten = Op2("Mingle", N32(OddBits), Lit(1))

\* '#1 $ #2' of a RESUME was folded to 6.
C25_WitnessFolded ==
    /\ status = "folded"
    /\ program[1].body.k = "Resume"
    /\ Written = Op2("Mingle", Lit(1), Lit(2))
    /\ Rewritten = N32(Bits(6))

\* Statement j is an ABSTAIN or REINSTATE that targets statement i: by a
\* label that maps to i, or by the gerund that is i's type tag.
Targets(j, i) ==
    /\ program[j].body.k \in {"Abstain", "Reinstate"}
    /\ \/ /\ program[j].body.g = ""
          /\ program[i].label = program[j].body.a
          /\ program[i].label > 0
       \/ /\ program[j].body.g # ""
          /\ Stype(program[i]) = program[j].body.g

Targeted(i) == \E j \in 1..Len(program) : Targets(j, i)

IsGiveUp(s) == s.body.k = "GiveUp"

(***************************************************************************)
(* C26: after abstain-check pruning, for every statement i that is not a   *)
(* GiveUp, can_abstain[i] is true if and only if some ABSTAIN or REINSTATE *)
(* of the program targets i, by a label that maps to i or by a gerund      *)
(* equal to i's type tag; hence a statement (not a GiveUp) whose           *)
(* abstention bit changes at run time is one that gets can_abstain = true. *)
(***************************************************************************)
C26_CanAbstainIffTargeted ==
    /\ [](status \in {"pruned", "optimized"} =>
             \A i \in 1..Len(program) :
                ~IsGiveUp(program[i]) => (program[i].can_abstain <=> Targeted(i)))
    /\ [][ status = "running" =>
              \A i \in 1..Len(program) :
                 (abstentions'[i] # abstentions[i] /\ ~IsGiveUp(program[i]))
                    => Targeted(i) ]_vars
    /\ [][ (status = "reduced" /\ status' = "pruned") =>
              \A i \in 1..Len(program) :
                 (Targeted(i) /\ ~IsGiveUp(program[i])) => program'[i].can_abstain ]_vars

\* (1) DO .0 <- #1 was abstained from by label in the speculative run, the
\* run fell off the end, and the pruning left can_abstain set on it alone.
C26_Witness ==
    /\ status = "pruned"
    /\ Len(program) = 3
    /\ program[1].label = 1 /\ program[1].can_abstain
    /\ program[2].body.k = "Abstain" /\ program[2].body.g = ""
    /\ ~program[2].can_abstain
    /\ program[3].body.k = "ReadOut" /\ ~program[3].can_abstain
    /\ abstentions[1]
    /\ err.code = IE663

\* DO REINSTATE CALCULATING: both assignments (one of them to an array, a
\* Dim) are marked, the input statement is not.
C26_WitnessGerund ==
    /\ status = "pruned"
    /\ Len(program) = 3
    /\ program[1].body.k = "Reinstate" /\ program[1].body.g = "Calc"
    /\ program[2].body.k = "Dim" /\ program[2].can_abstain
    /\ program[3].body.k = "WriteIn" /\ ~program[3].can_abstain
    /\ ~program[1].can_abstain

Reducing == status = "ok" /\ status' = "reduced"

C27_WitnessSource ==
    /\ status = "optimized"
    /\ Len(program) = 2
    /\ program[1].body.k = "WriteIn"
    /\ IsGiveUp(program[2]) /\ ~program[2].can_abstain

\* Some statement of one of the kinds ks names the variable n of kind t.
NamedIn(ks, t, n) ==
    \E i \in 1..Len(program) :
       /\ program[i].body.k \in ks
       /\ \E v \in {DestVar(program[i].body)}
                    \cup {program[i].body.more[j] : j \in DOMAIN program[i].body.more} :
             v.t = t /\ v.n = n

(***************************************************************************)
(* C28: after var-check pruning, for every variable V, can_stash[V] is     *)
(* true if and only if V is named in some STASH or RETRIEVE, and           *)
(* can_ignore[V] is true if and only if V is named in some IGNORE or       *)
(* REMEMBER; a statement that names V in a Stash or Retrieve implies       *)
(* can_stash[V].                                                           *)
(***************************************************************************)
C28_VarInfoIffNamed ==
    status = "optimized" =>
       /\ \A t \in 0..3 :
             \A n \in DOMAIN var_info[t] :
                /\ var_info[t][n].can_stash <=> NamedIn({"Stash", "Retrieve"}, t, n)
                /\ var_info[t][n].can_ignore <=> NamedIn({"Ignore", "Remember"}, t, n)
       /\ \A i \in 1..Len(program) :
             program[i].body.k \in {"Stash", "Retrieve"} =>
                /\ program[i].body.a \in DOMAIN var_info[program[i].body.t]
                /\ var_info[program[i].body.t][program[i].body.a].can_stash

\* DO STASH .0, DO IGNORE .1, and an input statement that keeps the program
\* from being reduced.
C28_Witness ==
    /\ status = "optimized"
    /\ \E i, j \in 1..Len(program) :
          program[i].body.k = "Stash" /\ program[j].body.k = "Ignore"
    /\ var_info[0][0].can_stash /\ ~var_info[0][0].can_ignore
    /\ var_info[0][1].can_ignore /\ ~var_info[0][1].can_stash
    /\ \A t \in 1..3 : \A n \in DOMAIN var_info[t] :
          ~var_info[t][n].can_stash /\ ~var_info[t][n].can_ignore

\* DO RETRIEVE :0 and DO REMEMBER ,0 set the flags as STASH and IGNORE do.
C28_WitnessRetrieve ==
    /\ status = "optimized"
    /\ \E i, j \in 1..Len(program) :
          program[i].body.k = "Retrieve" /\ program[j].body.k = "Remember"
    /\ var_info[1][0].can_stash /\ ~var_info[1][0].can_ignore
    /\ var_info[2][0].can_ignore /\ ~var_info[2][0].can_stash

\* The label of the statement before statement i (0 before the first).
PrevLabel(i) == IF i = 1 THEN 0 ELSE program[i - 1].label

\* The program holds what makes opt_const_output give up before the run.
Excluded ==
    \E i \in 1..Len(program) :
       \/ program[i].body.k = "WriteIn"
       \/ program[i].chance < 100 /\ ~(added_syslib /\ PrevLabel(i) = Lbl1901)
       \/ /\ program[i].body.k = "DoNext"
          /\ program[i].body.a \in {Lbl1900, Lbl1910}
          /\ PrevLabel(i) # Lbl1911

(***************************************************************************)
(* C29: the constant-output reduction either returns the program unchanged *)
(* (the program holds a WriteIn, a statement of chance below 100 outside   *)
(* the syslib exemption or a DoNext to 1900 or 1910 outside the syslib     *)
(* exemption, or the speculative run ends in a runtime error) or returns   *)
(* exactly the two statements Print(the bytes the speculative run wrote),  *)
(* GiveUp.                                                                 *)
(***************************************************************************)
C29_Claimed ==
    /\ [](status # "panic")
    /\ [][ status = "lowered" =>
              IF Excluded
              THEN status' = "reduced" /\ program' = program
              ELSE status' = "running" /\ program' = program ]_vars
    /\ [][ status = "running" => program' = program ]_vars
    /\ [][ status = "error" => (status' = "reduced" /\ program' = program) ]_vars
    /\ [][ status = "ok" =>
              /\ status' = "reduced"
              /\ Len(program') = 2
              /\ program'[1].body.k = "Print"
              /\ program'[1].body.subs = out
              /\ IsGiveUp(program'[2]) ]_vars

\* The value of .1.
SpotOne == spot[1].val

(***************************************************************************)
(* C30 as claimed: in the program (10) DO .1 <- #1, (20) DO COME FROM      *)
(* (30), DO .1 <- #2, DO GIVE UP, (30) DO .1 <- #3, execution ends without *)
(* error and the final value of .1 is 3, not 2: after statement (20)       *)
(* control continues at (30) and the COME FROM fires on landing at label   *)
(* 30.                                                                     *)
(***************************************************************************)
C30_Claimed ==
    program = ComeFromProgram =>
       /\ status # "error"
       /\ status = "ok" => SpotOne = 3

(***************************************************************************)
(* C30: in the program (10) DO .1 <- #1, (20) DO COME FROM (30),           *)
(* DO .1 <- #2, DO GIVE UP, (30) DO .1 <- #3, execution ends without error *)
(* at the GIVE UP and the final value of .1 is 2: statement (20) does      *)
(* nothing when control reaches it, the statements run in the order of the *)
(* source, and statement (30) is never reached, so the COME FROM never     *)
(* fires.                                                                  *)
(***************************************************************************)
C30_ComeFromScenario ==
    /\ [](program = ComeFromProgram =>
             /\ status \in {"running", "ok"}
             /\ pctr \in 0..3
             /\ SpotOne \in 0..2
             /\ status = "ok" => (pctr = 3 /\ SpotOne = 2))
    /\ [][ program = ComeFromProgram =>
              \/ pctr' = pctr + 1 /\ status' = "running"
              \/ pctr = 3 /\ status' = "ok" ]_vars

\* The run of the program has ended at the GIVE UP, .1 holding 2.
C30_Witness ==
    /\ program = ComeFromProgram
    /\ status = "ok"
    /\ SpotOne = 2
    /\ last.pc = 3

\* The place in the token stream of the first of the tokens that stand for
\* the raw token i.
PlaceOf(i) == i + Cardinality({j \in 1..(i - 1) : inner.src[j].tt = "WOW"})

(***************************************************************************)
(* C31: every `!` (WOW) the raw lexer produces is delivered by the token   *)
(* stream as SPARK immediately followed by SPOT, both with the source line *)
(* of the `!`, in that order, whether the stream is read with next() alone *)
(* or with calls of peek() in between; WOW itself is never delivered.      *)
(***************************************************************************)
C31_WowIsSparkSpot ==
    status = "lexing" =>
       /\ \A i \in 1..Len(inner.src) :
             inner.src[i].tt = "WOW" =>
                /\ Len(delivered) >= PlaceOf(i)
                      => delivered[PlaceOf(i)] = Token("SPARK", inner.src[i].line)
                /\ Len(delivered) >= PlaceOf(i) + 1
                      => delivered[PlaceOf(i) + 1] = Token("SPOT", inner.src[i].line)
       /\ \A k \in 1..Len(delivered) : delivered[k].tt # "WOW"
       /\ last.ret # "WOW"
       /\ (last = Call("next", "None")) => delivered = Expand(inner.src, 1)
       /\ (last.op = "next" /\ last.ret # "None")
             => /\ delivered[Len(delivered)] = Token(last.ret, line)
                /\ Len(delivered) <= Len(Expand(inner.src, 1))
                /\ delivered[Len(delivered)] = Expand(inner.src, 1)[Len(delivered)]

\* DO on line 1 and `!` on line 2 were read to the end.
C31_Witness ==
    /\ status = "lexing"
    /\ inner.src = <<Token("DO", 1), Token("WOW", 2)>>
    /\ delivered = <<Token("DO", 1), Token("SPARK", 2), Token("SPOT", 2)>>
    /\ last = Call("next", "None")

\* peek() is called on the `!` itself, and again between its two halves.
C31_WitnessPeek ==
    /\ status = "lexing"
    /\ inner.src[1].tt = "WOW"
    /\ \/ /\ last = Call("peek", "SPARK")
          /\ stash = <<Token("SPOT", 1), Token("SPARK", 1)>>
          /\ delivered = <<>>
       \/ /\ last = Call("peek", "SPOT")
          /\ delivered = <<Token("SPARK", 1)>>

\* peek() on `!` with an empty stash has left both halves on the stash.
C31_WitnessStash ==
    /\ status = "lexing"
    /\ last = Call("peek", "SPARK")
    /\ stash = <<Token("SPOT", 2), Token("SPARK", 2)>>

\* The tokens next() is still to return, in order.
Future == Reverse(stash) \o Expand(inner.src, inner.at + 1)

FirstOf(s) == IF s = <<>> THEN NoToken ELSE s[1]

(***************************************************************************)
(* C32: for any interleaving of peek(), push(t) and next(): peek() returns *)
(* the kind of exactly the token the following next() returns and changes  *)
(* neither the tokens next() returns later nor lineno(); after push(t) the *)
(* following next() returns t and the stream then continues as it would    *)
(* have without the push; no token is lost, duplicated or reordered.       *)
(***************************************************************************)
C32_PeekPushNext ==
    /\ [][ status = "lexing" =>
              /\ last'.op = "peek" =>
                    /\ last'.ret = FirstOf(Future).tt
                    /\ Future' = Future
                    /\ line' = line
                    /\ delivered' = delivered
                    /\ InnerNext(stash', inner').tok = FirstOf(Future)
              /\ last'.op = "push" =>
                    /\ Future' = <<Token(last'.ret, line)>> \o Future
                    /\ InnerNext(stash', inner').tok.tt = last'.ret
                    /\ InnerNext(stash', inner').stash = stash
                    /\ InnerNext(stash', inner').inner = inner
                    /\ line' = line
                    /\ delivered' = delivered
              /\ last'.op = "next" =>
                    /\ last'.ret = FirstOf(Future).tt
                    /\ IF Future = <<>>
                       THEN Future' = <<>> /\ delivered' = delivered /\ line' = line
                       ELSE /\ Future' = Tail(Future)
                            /\ delivered' = Append(delivered, Future[1])
                            /\ line' = Future[1].line ]_vars
    /\ [](status = "lexing" =>
             (last.op = "peek" => InnerNext(stash, inner).tok.tt = last.ret))

\* A token was pushed ahead of a source of one DO, and both were read: two
\* tokens delivered from a source of one.
C32_Witness ==
    /\ status = "lexing"
    /\ inner.src = <<Token("DO", 2)>>
    /\ delivered = <<Token("SPOT", 1), Token("DO", 2)>>
    /\ last = Call("next", "DO")
    /\ stash = <<>>

\* push(t) between the two halves of `!`: t is on the stash above SPOT.
C32_WitnessPush ==
    /\ status = "lexing"
    /\ last = Call("push", "DO")
    /\ stash = <<Token("SPOT", 1), Token("DO", 1)>>
    /\ delivered = <<Token("SPARK", 1)>>

\* The product of the numbers of ds, as a number.
RECURSIVE ProductOf(_)
ProductOf(ds) == IF ds = <<>> THEN 1 ELSE ds[1] * ProductOf(Tail(ds))

\* The statement at pctr is a DIM that runs, of an array that is not
\* ignored.
Dimensioning ==
    /\ Reached("Dim")
    /\ <<Cur.body.t, Cur.body.a>> \notin ignored

(***************************************************************************)
(* C33: after a non-ignored DIM of array v with dimensions d_1..d_k, v has *)
(* rank k and exactly d_1 * ... * d_k elements, all zero, computed without *)
(* wrap-around for every product that fits in 32 bits (256 BY 256 yields   *)
(* 65536 elements, not 0); the snapshot stack of v is unchanged.           *)
(***************************************************************************)
C33_Claimed ==
    [][ (Dimensioning /\ last'.res # "Rejected") =>
           LET v == store[Cur.body.t + 1][Cur.body.a]
               w == store'[Cur.body.t + 1][Cur.body.a]
           IN  /\ status' = "running"
               /\ w.val.dims = Cur.body.subs
               /\ Len(w.val.elems) = ProductOf(Cur.body.subs)
               /\ \A i \in 1..Len(w.val.elems) : w.val.elems[i] = 0
               /\ w.stack = v.stack ]_vars

\* C34: folding a unary reduction of a literal preserves the declared width
\* of the operator: the literal it yields is of the declared width and is
\* the reduction of that width, also when the operand became a literal by
\* the folding of a select or a mingle.
C34_Claimed ==
    [][ status = "parsed" =>
          \A i \in 1..Len(program) :
             LET x == program[i].body.x
                 y == program'[i].body.x
             IN  (HasExpr(program[i]) /\ IsUnary(x) /\ Fold(x.args[1]).op = "Num")
                 => y = Num(x.vt, unary(x.op, x.vt, Fold(x.args[1]).n)) ]_vars

\* C35: while a variable is in the ignore set no statement changes its
\* value or the shape of its array: neither a Calc, a WriteIn, a DIM nor a
\* RETRIEVE.
C35_Claimed ==
    [][ \A t \in 0..3, n \in 0..(NSpot - 1) :
           <<t, n>> \in ignored => store'[t + 1][n].val = store[t + 1][n].val ]_vars

\* C36: whenever a statement raises a runtime error, the variable values,
\* the snapshot stacks, jumps, abstentions and the ignore set are those of
\* before the statement began, also for a statement on a list of variables
\* such as RETRIEVE .0 + .1 where a later element fails.
C36_Claimed ==
    [][ (status = "running" /\ status' = "error")
           => /\ store' = store
              /\ jumps' = jumps
              /\ abstentions' = abstentions
              /\ ignored' = ignored ]_vars

(***************************************************************************)
(* C37: every entry of jumps is the index, below N, of a DoNext statement, *)
(* and jumps changes only when a statement that is reached, not abstained  *)
(* and not rejected by its chance draw is executed: a DoNext pushes its    *)
(* own index, a RESUME or a FORGET pops entries off the top.  No other     *)
(* statement, COME FROM deflection or skipped statement changes it.        *)
(***************************************************************************)
C37_JumpsDiscipline ==
    /\ [](\A i \in 1..Len(jumps) :
             jumps[i] < N /\ StmtAt(program, jumps[i]).body.k = "DoNext")
    /\ [][ jumps' # jumps =>
             /\ Running /\ pctr < N /\ ~abstentions[pctr + 1]
             /\ last'.res \notin {"Rejected", "Skip"}
             /\ \/ Cur.body.k = "DoNext" /\ jumps' = Append(jumps, pctr)
                \/ /\ Cur.body.k \in {"Resume", "Forget"}
                   /\ Len(jumps') < Len(jumps)
                   /\ jumps' = SubSeq(jumps, 1, Len(jumps')) ]_vars

\* With an entry on jumps, a statement that is no DoNext, RESUME or FORGET
\* was executed and a COME FROM deflected control from its label.
C37_Witness ==
    /\ jumps # <<>>
    /\ last.res = "Next"
    /\ last.pc >= 0
    /\ StmtAt(program, last.pc).body.k \notin {"DoNext", "Resume", "Forget"}
    /\ status = "running"
    /\ pctr # last.pc + 1

\* With an entry on jumps, an abstained DO NEXT was skipped.
C37_WitnessSkipped ==
    /\ jumps # <<>>
    /\ last.res = "Skip"
    /\ StmtAt(program, last.pc).body.k = "DoNext"

\* A RESUME popped the entry a DoNext had pushed.
C37_WitnessPopped ==
    /\ last.res = "Back"
    /\ last.top >= 0
    /\ jumps = <<>>

(***************************************************************************)
(* C38: whenever opt_const_output replaces the program by Print(bytes);    *)
(* GiveUp, a run of the original program, whatever its chance draws were,  *)
(* ended by GiveUp and wrote exactly those bytes.                          *)
(***************************************************************************)
C38_Claimed ==
    [][ (first # NoRun /\ status = "ok" /\ status' = "reduced")
           => /\ program'[1].body.k = "Print"
              /\ first.status = "ok"
              /\ program'[1].body.subs = first.out ]_vars

(***************************************************************************)
(* C39: the optimizer terminates on every program: the speculative run of  *)
(* opt_const_output ends, by GIVE UP or by an error, also for a program    *)
(* that loops through COME FROM, and the passes after it complete.         *)
(***************************************************************************)
C39_Claimed == <>(status \in {"optimized", "crashed", "panic"})

====
